---- MODULE Spec2Model ----
(***************************************************************************)
(* Model of the market-data aggregation and caching engine of              *)
(* ZipCodes-CDP-Lookup: MarketDataService (src/src/services/               *)
(* marketDataService.ts) as served by src/src/server.ts, and the cache     *)
(* helpers and handlers of src/src/routes.js.                              *)
(*                                                                         *)
(* Conventions.  A JavaScript string is a sequence of one-character        *)
(* strings.  An optional value (null / a value) is the empty sequence or   *)
(* a one-element sequence.  Time is counted in hours.  price_trend_30d is  *)
(* kept in hundredths of a percent and market_velocity in tenths, the      *)
(* precision the code rounds them to.                                      *)
(***************************************************************************)
EXTENDS Integers, Sequences, FiniteSets, TLC

VARIABLES
    endpoint,       \* the endpoint the requests of this behaviour go to
    hasKey,         \* RAPIDAPI_KEY is configured          (marketDataService.ts:14)
    hasPool,        \* DATABASE_URL is configured, pool # null      (routes.js:4)
    now,            \* wall clock / NOW(), in hours
    marketCache,    \* table market_data_cache, by zip_code
    listingCache,   \* table listing_cache, by cache_key
    routesCache,    \* table cache of routes.js, by key
    last,           \* observation of the most recent handler call
    bulk,           \* the POST /bulk-listing-check request being served
    applied,        \* the most recent application of a function of the service
    serving,        \* the service calls of the request being served, step by step
    propertyCache   \* table property_data_cache, by seller and address

vars == <<endpoint, hasKey, hasPool, now, marketCache, listingCache, routesCache, last, bulk,
          applied, serving, propertyCache>>

-----------------------------------------------------------------------------
(* Bounds of the model *)

\* the clock stops at MaxTime hours
MaxTime == 24
\* the clock advances in steps of TickHours hours
TickHours == 12

-----------------------------------------------------------------------------
(* Generic helpers *)

None == <<>>
Some(x) == <<x>>

Max(a, b) == IF a >= b THEN a ELSE b
Min(a, b) == IF a <= b THEN a ELSE b

\* Math.round(n / d) for d > 0: floor(n/d + 0.5)
RoundDiv(n, d) == (2 * n + d) \div (2 * d)

\* the % of JavaScript: the sign follows the dividend
JsMod(a, b) == IF a >= 0 THEN a % b ELSE -((-a) % b)

\* a function as an explicit table, evaluated once
Tabulated(f) == f @@ <<>>

RECURSIVE SumSeq(_)
SumSeq(s) == IF s = <<>> THEN 0 ELSE Head(s) + SumSeq(Tail(s))

RECURSIVE SelectFirst(_, _)
\* Array.prototype.find with the predicate given as the set of accepted values
SelectFirst(s, ok) ==
    IF s = <<>> THEN None
    ELSE IF Head(s) \in ok THEN Some(Head(s))
    ELSE SelectFirst(Tail(s), ok)

-----------------------------------------------------------------------------
(* Strings *)

DigitChars == {"0", "1", "2", "3", "4", "5", "6", "7", "8", "9"}

DigitVal(c) ==
    CASE c = "0" -> 0 [] c = "1" -> 1 [] c = "2" -> 2 [] c = "3" -> 3
      [] c = "4" -> 4 [] c = "5" -> 5 [] c = "6" -> 6 [] c = "7" -> 7
      [] c = "8" -> 8 [] c = "9" -> 9

IsSpace(c) == c \in {" ", "\t", "\n"}

RECURSIVE TrimLeft(_)
TrimLeft(s) == IF s # <<>> /\ IsSpace(Head(s)) THEN TrimLeft(Tail(s)) ELSE s

RECURSIVE DigitPrefix(_)
DigitPrefix(s) ==
    IF s # <<>> /\ Head(s) \in DigitChars
    THEN <<Head(s)>> \o DigitPrefix(Tail(s))
    ELSE <<>>

RECURSIVE DigitsValue(_, _)
DigitsValue(s, acc) ==
    IF s = <<>> THEN acc ELSE DigitsValue(Tail(s), 10 * acc + DigitVal(Head(s)))

\* parseInt, after the leading white space: an optional sign, then the decimal
\* digits up to the first other character; NaN (here None) without a digit
parseIntDigits(neg, d) ==
    IF d = <<>> THEN None
    ELSE Some(IF neg THEN -DigitsValue(d, 0) ELSE DigitsValue(d, 0))

parseIntSigned(t) ==
    parseIntDigits(t # <<>> /\ Head(t) = "-",
                   DigitPrefix(IF t # <<>> /\ Head(t) \in {"-", "+"} THEN Tail(t) ELSE t))

parseInt(str) == parseIntSigned(TrimLeft(str))

\* the printable ASCII characters, from code 32 on ("grave" stands for the
\* grave accent, code 96)
Ascii ==
    << " ", "!", "\"", "#", "$", "%", "&", "'", "(", ")", "*", "+", ",", "-", ".", "/",
       "0", "1", "2", "3", "4", "5", "6", "7", "8", "9", ":", ";", "<", "=", ">", "?",
       "@", "A", "B", "C", "D", "E", "F", "G", "H", "I", "J", "K", "L", "M", "N", "O",
       "P", "Q", "R", "S", "T", "U", "V", "W", "X", "Y", "Z", "[", "\\", "]", "^", "_",
       "grave", "a", "b", "c", "d", "e", "f", "g", "h", "i", "j", "k", "l", "m", "n", "o",
       "p", "q", "r", "s", "t", "u", "v", "w", "x", "y", "z", "{", "|", "}", "~" >>

\* String.prototype.charCodeAt(0) of a one-character string
charCodeAt(c) == 31 + (CHOOSE i \in DOMAIN Ascii : Ascii[i] = c)

UpperChars == {Ascii[i] : i \in 34..59}
LowerChars == {Ascii[i] : i \in 66..91}

\* the class \w of a regular expression
IsWordChar(c) == c \in UpperChars \cup LowerChars \cup DigitChars \cup {"_"}

lowerChar(c) == IF c \in UpperChars THEN Ascii[charCodeAt(c) - 31 + 32] ELSE c

\* String.prototype.toLowerCase
toLowerCase(s) == [i \in DOMAIN s |-> lowerChar(s[i])]

RECURSIVE TrimRight(_)
TrimRight(s) ==
    IF s # <<>> /\ IsSpace(s[Len(s)]) THEN TrimRight(SubSeq(s, 1, Len(s) - 1)) ELSE s

\* String.prototype.trim
trim(s) == TrimRight(TrimLeft(s))

RECURSIVE WordPrefix(_)
\* the longest prefix of s made of \w characters
WordPrefix(s) ==
    IF s # <<>> /\ IsWordChar(Head(s))
    THEN <<Head(s)>> \o WordPrefix(Tail(s))
    ELSE <<>>

RECURSIVE ReplaceWords(_, _, _)
\* s.replace(/\b(w1|w2|...)\b/g, ...): every maximal run of \w characters that
\* is one of words is replaced by into[run]; into maps each word to its
\* replacement
ReplaceWordRun(s, run, words, into) ==
    (IF run \in words THEN into[run] ELSE run)
        \o ReplaceWords(SubSeq(s, Len(run) + 1, Len(s)), words, into)

ReplaceWords(s, words, into) ==
    IF s = <<>> THEN <<>>
    ELSE IF IsWordChar(Head(s)) THEN ReplaceWordRun(s, WordPrefix(s), words, into)
    ELSE <<Head(s)>> \o ReplaceWords(Tail(s), words, into)

RECURSIVE StripPunctuation(_)
\* s.replace(/[^\w\s]/g, '')
StripPunctuation(s) ==
    IF s = <<>> THEN <<>>
    ELSE IF IsWordChar(Head(s)) \/ IsSpace(Head(s))
    THEN <<Head(s)>> \o StripPunctuation(Tail(s))
    ELSE StripPunctuation(Tail(s))

RECURSIVE ReplaceSpaceRuns(_, _)
\* s.replace(/\s+/g, by)
ReplaceSpaceRuns(s, by) ==
    IF s = <<>> THEN <<>>
    ELSE IF IsSpace(Head(s)) THEN <<by>> \o ReplaceSpaceRuns(TrimLeft(s), by)
    ELSE <<Head(s)>> \o ReplaceSpaceRuns(Tail(s), by)

RECURSIVE UntilChar(_, _)
\* the part of s before the first occurrence of c
UntilChar(s, c) ==
    IF s = <<>> \/ Head(s) = c THEN <<>> ELSE <<Head(s)>> \o UntilChar(Tail(s), c)

RECURSIVE split(_, _)
\* String.prototype.split with a one-character separator
splitAfter(s, c, first) ==
    IF Len(first) = Len(s) THEN <<first>>
    ELSE <<first>> \o split(SubSeq(s, Len(first) + 2, Len(s)), c)

split(s, c) == splitAfter(s, c, UntilChar(s, c))

\* String.prototype.includes
includes(s, sub) ==
    \E i \in 1..(Len(s) - Len(sub) + 1) : SubSeq(s, i, i + Len(sub) - 1) = sub

-----------------------------------------------------------------------------
(* Inputs: ZIP codes *)

Zip90210 == <<"9", "0", "2", "1", "0">>
Zip10001 == <<"1", "0", "0", "0", "1">>

Zips == {Zip90210, Zip10001}

\* the addresses asked for: "123 Main St" and "77 Pine Way"
Addr123MainSt == <<"1", "2", "3", " ", "M", "a", "i", "n", " ", "S", "t">>
Addr77PineWay == <<"7", "7", " ", "P", "i", "n", "e", " ", "W", "a", "y">>

Addresses == {Addr123MainSt, Addr77PineWay}

\* the ZIP codes of the listing requests
ListingZips == {Zip90210}

-----------------------------------------------------------------------------
(* MockDataSynthesizer for market snapshots *)

\* Math.sin(seed / 100) in millionths, tabulated for the seeds of Zips and of
\* SynthesisZips
SinE6(seed) ==
    CASE seed = 90210 -> -446552
      [] seed = 10001 -> -497717
      [] seed = 501 -> -956040
      [] seed = 157 -> 1000000
      [] seed = 471 -> -999997
      [] seed = -500 -> 958924
      [] OTHER -> 0

basePriceOf(zipNum) ==
    IF zipNum >= 90000 THEN 750000
    ELSE IF zipNum >= 80000 THEN 450000
    ELSE IF zipNum >= 70000 THEN 400000
    ELSE IF zipNum >= 60000 THEN 320000
    ELSE IF zipNum >= 50000 THEN 380000
    ELSE IF zipNum >= 40000 THEN 280000
    ELSE IF zipNum >= 30000 THEN 350000
    ELSE IF zipNum >= 20000 THEN 420000
    ELSE IF zipNum >= 10000 THEN 650000
    ELSE 500000

\* parseInt(zipCode) || 10001
zipNumOf(parsed) == IF parsed = None \/ parsed[1] = 0 THEN 10001 ELSE parsed[1]

\* the record of generateRealisticMarketData from medianPrice, daysOnMarket,
\* variation (in thousandths) and sin (in millionths)
syntheticSnapshot(zipCode, medianPrice, daysOnMarket, var1000, sin) ==
    [ zip_code |-> zipCode,
      median_price |-> medianPrice,
      days_on_market |-> daysOnMarket,
      \* 30 + variation * 150
      inventory_count |-> RoundDiv(30 * 1000 + var1000 * 150, 1000),
      \* (marketHeat - 0.5) * 8, rounded to hundredths
      price_trend_30d |-> RoundDiv(sin * 4 * 100, 1000000),
      \* 15 + variation * 85
      active_listings |-> RoundDiv(15 * 1000 + var1000 * 85, 1000),
      \* 150 + medianPrice / 5000
      avg_price_per_sqft |-> RoundDiv(150 * 5000 + medianPrice, 5000),
      \* daysOnMarket / 7, rounded to tenths
      market_velocity |-> RoundDiv(daysOnMarket * 10, 7) ]

\* marketHeat = sin * 0.5 + 0.5, variation = (seed % 1000) / 1000; every
\* quantity is the code's expression with both scalars substituted, over the
\* common denominator
syntheticFromScalars(zipCode, basePrice, var1000, sin) ==
    syntheticSnapshot(zipCode,
        \* basePrice + variation * 300000 + marketHeat * 200000
        RoundDiv((basePrice + var1000 * 300 + 100000) * 10 + sin, 10),
        \* 25 + (1 - marketHeat) * 65
        RoundDiv(2 * 25 * 1000000 + (1000000 - sin) * 65, 2000000),
        var1000, sin)

\* seed = zipNum % 100000
syntheticFromSeed(zipCode, zipNum, seed) ==
    syntheticFromScalars(zipCode, basePriceOf(zipNum), JsMod(seed, 1000), SinE6(seed))

syntheticFromZipNum(zipCode, zipNum) ==
    syntheticFromSeed(zipCode, zipNum, JsMod(zipNum, 100000))

generateRealisticMarketData(zipCode) ==
    syntheticFromZipNum(zipCode, zipNumOf(parseInt(zipCode)))

\* the record of the catch of generateRealisticMarketData
syntheticOnFailure(zipCode) ==
    [ zip_code |-> zipCode,
      median_price |-> 400000,
      days_on_market |-> 45,
      inventory_count |-> 50,
      price_trend_30d |-> 0,
      active_listings |-> 15,
      avg_price_per_sqft |-> 300,
      market_velocity |-> 64 ]

-----------------------------------------------------------------------------
(* Upstream payloads *)

\* JSON values as far as the code inspects them
JUndef == [t |-> "undef"]
JArr(s) == [t |-> "arr", v |-> s]
\* a string, number or object that is not an array
JOther(truthy) == [t |-> "other", truthy |-> truthy]
\* a response body that is an object, with the five probed paths
JBody(hs, dr, r, p, dp) ==
    [t |-> "body", home_search_results |-> hs, data_results |-> dr,
     results |-> r, properties |-> p, data_properties |-> dp]

\* the || of JavaScript: an array (even an empty one) and an object are truthy
Truthy(j) == j.t \in {"arr", "body"} \/ (j.t = "other" /\ j.truthy)

\* the strings the code compares and returns, as character sequences
StrForSale == <<"f", "o", "r", "_", "s", "a", "l", "e">>
StrActive == <<"a", "c", "t", "i", "v", "e">>
StrSold == <<"s", "o", "l", "d">>
StrPending == <<"p", "e", "n", "d", "i", "n", "g">>
StrOffMarket == <<"o", "f", "f", "_", "m", "a", "r", "k", "e", "t">>
StrNotListed == <<"n", "o", "t", "_", "l", "i", "s", "t", "e", "d">>
StrUnknown == <<"u", "n", "k", "n", "o", "w", "n">>

\* a property record that is null
NullRecord == [null |-> TRUE]
IsNullRecord(p) == "null" \in DOMAIN p

Line123Main == <<"1", "2", "3", " ", "M", "a", "i", "n", " ", "S", "t", "r", "e", "e", "t">>
Line456Oak == <<"4", "5", "6", " ", "O", "a", "k", " ", "A", "v", "e">>
Line9Elm == <<"9", " ", "E", "l", "m", " ", "B", "o", "u", "l", "e", "v", "a", "r", "d">>

Estimate(e, best) == [estimate |-> e, isbest_homevalue |-> best]

\* an entry of current_estimates that is null
NullEstimate == [null |-> TRUE]
IsNullEstimate(e) == "null" \in DOMAIN e

PropertyRecord(line, status, listPrice, estimates, sqft, days) ==
    [line |-> line, status |-> status, list_price |-> listPrice,
     current_estimates |-> estimates, sqft |-> sqft, days_on_mls |-> days]

\* what properties/search by postal_code returns when it has records (prices
\* are small numbers so that the statistics stay within TLC's integers)
RecordsA ==
    << PropertyRecord(Line123Main, StrForSale, 500,
                      <<Estimate(480, FALSE), Estimate(490, TRUE)>>, 20, 30),
       PropertyRecord(Line456Oak, StrSold, 0, <<Estimate(300, FALSE)>>, 15, 0),
       NullRecord >>

\* what properties/search by location returns when it has records
RecordsB ==
    << PropertyRecord(Line456Oak, StrActive, 410, <<>>, 0, 12),
       PropertyRecord(Line9Elm, StrForSale, 350, <<Estimate(400, TRUE)>>, 10, 21),
       PropertyRecord(Line9Elm, StrPending, 0, <<>>, 0, 0) >>

Strategies == <<"postal_code", "location">>

ResponseNames ==
    {"neterr", "timeout", "limiterr", "http500", "http429", "http404",
     "empty", "malformed", "nullbody", "records", "recordsB"}

\* the answer of a strategy that is not asked
Unasked == "unasked"

\* what the first request of a call can be answered; nothing is asked without a key
FirstResponses(keyed) ==
    IF keyed
    THEN {"neterr", "http500", "http429", "http404", "empty", "malformed", "records"}
    ELSE {Unasked}

\* The answer of axios.get for one strategy.  kind "error" is a request that
\* got no response (message: whether error.message mentions quota or limit);
\* kind "http" carries the status and the body.
Response(name, strategy) ==
    CASE name = "neterr"   -> [kind |-> "error", status |-> 0, quotaMessage |-> FALSE, data |-> JUndef]
      [] name = "timeout"  -> [kind |-> "error", status |-> 0, quotaMessage |-> FALSE, data |-> JUndef]
      [] name = "limiterr" -> [kind |-> "error", status |-> 0, quotaMessage |-> TRUE, data |-> JUndef]
      [] name = "http500"  -> [kind |-> "http", status |-> 500, quotaMessage |-> FALSE, data |-> JUndef]
      [] name = "http429"  -> [kind |-> "http", status |-> 429, quotaMessage |-> FALSE, data |-> JOther(TRUE)]
      [] name = "http404"  -> [kind |-> "http", status |-> 404, quotaMessage |-> FALSE, data |-> JOther(TRUE)]
      [] name = "empty"    -> [kind |-> "http", status |-> 200, quotaMessage |-> FALSE,
                               data |-> JBody(JUndef, JArr(<<>>), JUndef, JUndef, JUndef)]
      [] name = "malformed" -> [kind |-> "http", status |-> 200, quotaMessage |-> FALSE,
                               data |-> JBody(JUndef, JOther(TRUE), JUndef, JUndef, JUndef)]
      [] name = "nullbody" -> [kind |-> "http", status |-> 200, quotaMessage |-> FALSE, data |-> JUndef]
      [] name = "records"  -> [kind |-> "http", status |-> 200, quotaMessage |-> FALSE,
                               data |-> IF strategy = "postal_code"
                                        THEN JBody(JArr(RecordsA), JUndef, JUndef, JUndef, JUndef)
                                        ELSE JBody(JUndef, JUndef, JArr(RecordsB), JUndef, JUndef)]
      [] name = "recordsB" -> [kind |-> "http", status |-> 200, quotaMessage |-> FALSE,
                               data |-> JBody(JUndef, JUndef, JUndef, JArr(RecordsB), JUndef)]

\* validateStatus: (status) => status < 500; axios rejects every other answer
axiosThrows(r) == r.kind = "error" \/ r.status >= 500

\* what the second strategy can be answered: it is asked only in the catch
\* block of the first
SecondResponses(ra) ==
    IF ra # Unasked /\ axiosThrows(Response(ra, Strategies[1]))
    THEN {"timeout", "http404", "empty", "records"}
    ELSE {Unasked}

-----------------------------------------------------------------------------
(* ResponseExtractor *)

\* Array.isArray(properties) ? properties : []
arrayOrEmpty(properties) == IF properties.t = "arr" THEN properties.v ELSE <<>>

extractPropertiesFromResponse(data) ==
    IF ~Truthy(data) THEN <<>>
    ELSE IF data.t # "body" THEN <<>>
    ELSE arrayOrEmpty(
             IF Truthy(data.home_search_results) THEN data.home_search_results
             ELSE IF Truthy(data.data_results) THEN data.data_results
             ELSE IF Truthy(data.results) THEN data.results
             ELSE IF Truthy(data.properties) THEN data.properties
             ELSE IF Truthy(data.data_properties) THEN data.data_properties
             ELSE JArr(<<>>))

-----------------------------------------------------------------------------
(* StatisticsEngine *)

RECURSIVE Insert(_, _)
Insert(x, sorted) ==
    IF sorted = <<>> THEN <<x>>
    ELSE IF x <= Head(sorted) THEN <<x>> \o sorted
    ELSE <<Head(sorted)>> \o Insert(x, Tail(sorted))

RECURSIVE SortAsc(_)
SortAsc(s) == IF s = <<>> THEN <<>> ELSE Insert(Head(s), SortAsc(Tail(s)))

\* calculateMedian, doubled so that the mean of two middle elements stays an integer
\* the upper of the two middle elements whatever the length
medianOfSortedUpper2(sorted, middle) == 2 * sorted[middle + 1]

medianOfSorted2(sorted, middle) ==
    IF Len(sorted) % 2 = 0
    THEN sorted[middle] + sorted[middle + 1]
    ELSE 2 * sorted[middle + 1]

calculateMedian2(numbers) ==
    IF Len(numbers) = 0 THEN 0
    ELSE medianOfSorted2(SortAsc(numbers), Len(numbers) \div 2)

\* current_estimates.find(e => e.isbest_homevalue) || current_estimates[0]
orFirstEstimate(best, es) ==
    IF best # None THEN best
    ELSE IF es # <<>> THEN Some(es[1])
    ELSE None

bestEstimateOf(es) ==
    orFirstEstimate(SelectFirst(es, {e \in {es[i] : i \in DOMAIN es} : e.isbest_homevalue}), es)

\* bestEstimate && bestEstimate.estimate > 0
positiveEstimate(b) ==
    IF b # None /\ b[1].estimate > 0 THEN Some(b[1].estimate) ELSE None

\* the estimate one record contributes to estimates, if any
estimateOf(property) == positiveEstimate(bestEstimateOf(property.current_estimates))

\* current_estimates.find(e => e.isbest_homevalue) reads a field of null: there
\* is a null entry with no entry flagged best before it
estimatesThrow(es) ==
    \E k \in DOMAIN es :
        /\ IsNullEstimate(es[k])
        /\ \A j \in 1 .. k - 1 : ~IsNullEstimate(es[j]) /\ ~es[j].isbest_homevalue

\* the totals after a record whose estimates throw: its list price is in, the
\* rest of the loop body is not run
collectListPrice(acc, p, hasList) ==
    [ acc EXCEPT
        !.listPrices = IF hasList THEN Append(@, p.list_price) ELSE @,
        !.prices = IF hasList THEN Append(@, p.list_price) ELSE @,
        !.forSaleCount = @ + (IF hasList /\ p.status \in {StrForSale, StrActive}
                              THEN 1 ELSE 0) ]

RECURSIVE Collect(_, _)
\* the totals after one record p with estimate est (none: the empty sequence)
collectOne(acc, p, hasList, est) ==
    [ listPrices |-> IF hasList THEN Append(acc.listPrices, p.list_price)
                     ELSE acc.listPrices,
      prices |-> (IF hasList THEN Append(acc.prices, p.list_price) ELSE acc.prices)
                 \o (IF est # None /\ p.list_price = 0 THEN est ELSE <<>>),
      estimates |-> acc.estimates \o est,
      forSaleCount |-> acc.forSaleCount +
          (IF hasList /\ p.status \in {StrForSale, StrActive} THEN 1 ELSE 0),
      totalSqft |-> acc.totalSqft + (IF p.sqft > 0 THEN p.sqft ELSE 0),
      sqftCount |-> acc.sqftCount + (IF p.sqft > 0 THEN 1 ELSE 0),
      totalDaysOnMarket |-> acc.totalDaysOnMarket +
          (IF p.days_on_mls > 0 THEN p.days_on_mls ELSE 0),
      daysOnMarketCount |-> acc.daysOnMarketCount +
          (IF p.days_on_mls > 0 THEN 1 ELSE 0),
      soldCount |-> acc.soldCount + (IF p.status = StrSold THEN 1 ELSE 0) ]

\* the loop over the properties: the error of one record is caught inside the
\* loop; a null record throws at its first statement
Collect(properties, acc) ==
    IF properties = <<>> THEN acc
    ELSE IF IsNullRecord(Head(properties)) THEN Collect(Tail(properties), acc)
    ELSE IF estimatesThrow(Head(properties).current_estimates)
    THEN Collect(Tail(properties),
                 collectListPrice(acc, Head(properties), Head(properties).list_price > 0))
    ELSE Collect(Tail(properties),
                 collectOne(acc, Head(properties), Head(properties).list_price > 0,
                            estimateOf(Head(properties))))

EmptyAcc ==
    [listPrices |-> <<>>, prices |-> <<>>, estimates |-> <<>>, forSaleCount |-> 0,
     totalSqft |-> 0, sqftCount |-> 0, totalDaysOnMarket |-> 0, daysOnMarketCount |-> 0,
     soldCount |-> 0]

\* the trend without the clamp
unclampedTrend(sl, nl, se, ne) == RoundDiv(10000 * (sl * ne - se * nl), se * nl)

\* ((avgListPrice - avgEstimate) / avgEstimate) * 100, clamped to [-10, 10] and
\* rounded to hundredths
clampedTrend(sl, nl, se, ne) ==
    Max(-1000, Min(1000, RoundDiv(10000 * (sl * ne - se * nl), se * nl)))

priceTrendOf(listPrices, estimates) ==
    IF Len(listPrices) > 0 /\ Len(estimates) > 0
    THEN clampedTrend(SumSeq(listPrices), Len(listPrices), SumSeq(estimates), Len(estimates))
    ELSE 0

\* the record with the velocity rounded to whole weeks
computedSnapshotWholeWeeks(zipCode, count, a, median2, avgDaysOnMarket) ==
    [ zip_code |-> zipCode,
      median_price |-> RoundDiv(median2, 2),
      days_on_market |-> avgDaysOnMarket,
      inventory_count |-> count,
      price_trend_30d |-> priceTrendOf(a.listPrices, a.estimates),
      active_listings |-> a.forSaleCount,
      avg_price_per_sqft |->
          IF a.sqftCount > 0
          THEN RoundDiv(median2 * a.sqftCount, 2 * a.totalSqft)
          ELSE RoundDiv(median2, 2 * 1200),
      market_velocity |-> 10 * RoundDiv(avgDaysOnMarket, 7) ]

\* the record of calculateMarketMetrics from the loop's totals, 2 * medianPrice
\* and avgDaysOnMarket
computedSnapshot(zipCode, count, a, median2, avgDaysOnMarket) ==
    [ zip_code |-> zipCode,
      median_price |-> RoundDiv(median2, 2),
      days_on_market |-> avgDaysOnMarket,
      inventory_count |-> count,
      price_trend_30d |-> priceTrendOf(a.listPrices, a.estimates),
      active_listings |-> a.forSaleCount,
      \* medianPrice / avgSqft, avgSqft = totalSqft / sqftCount or 1200
      avg_price_per_sqft |->
          IF a.sqftCount > 0
          THEN RoundDiv(median2 * a.sqftCount, 2 * a.totalSqft)
          ELSE RoundDiv(median2, 2 * 1200),
      market_velocity |-> RoundDiv(avgDaysOnMarket * 10, 7) ]

\* 2 * medianPrice: the median of allPrices, 400000 without any price
medianPrice2(allPrices) ==
    IF Len(allPrices) > 0 THEN calculateMedian2(allPrices) ELSE 2 * 400000

metricsOfTotals(zipCode, count, a) ==
    computedSnapshot(zipCode, count, a,
        medianPrice2(IF Len(a.prices) > 0 THEN a.prices ELSE a.estimates),
        IF a.daysOnMarketCount > 0
        THEN RoundDiv(a.totalDaysOnMarket, a.daysOnMarketCount) ELSE 45)

calculateMarketMetrics(zipCode, properties) ==
    metricsOfTotals(zipCode, Len(properties), Collect(properties, EmptyAcc))

\* the record of the outer catch of calculateMarketMetrics, reached when the
\* loop cannot iterate properties; length is properties.length, None when the
\* value has none
metricsOnFailure(zipCode, length) ==
    [ zip_code |-> zipCode,
      median_price |-> 400000,
      days_on_market |-> 45,
      inventory_count |-> IF length = None \/ length[1] = 0 THEN 50 ELSE length[1],
      price_trend_30d |-> 0,
      \* Math.round((properties.length || 50) * 0.3)
      active_listings |->
          RoundDiv(3 * (IF length = None \/ length[1] = 0 THEN 50 ELSE length[1]), 10),
      avg_price_per_sqft |-> 300,
      market_velocity |-> 64 ]

-----------------------------------------------------------------------------
(* ListingMatcher *)

\* the words the normalize of addressMatch removes
StreetWords ==
    { <<"s", "t", "r", "e", "e", "t">>,
      <<"s", "t">>,
      <<"a", "v", "e", "n", "u", "e">>,
      <<"a", "v", "e">>,
      <<"r", "o", "a", "d">>,
      <<"r", "d">>,
      <<"d", "r", "i", "v", "e">>,
      <<"d", "r">>,
      <<"l", "a", "n", "e">>,
      <<"l", "n">>,
      <<"c", "o", "u", "r", "t">>,
      <<"c", "t">>,
      <<"p", "l", "a", "c", "e">>,
      <<"p", "l">> }

\* the normalize of addressMatch
matchNormalize(addr) ==
    trim(ReplaceSpaceRuns(
             StripPunctuation(
                 ReplaceWords(toLowerCase(addr), StreetWords, [w \in StreetWords |-> <<>>])),
             " "))

Range(s) == {s[i] : i \in DOMAIN s}

\* words1.filter(word => word.length > 2 && words2.includes(word))
commonWords(words1, words2) ==
    LET common(word) == Len(word) > 2 /\ word \in Range(words2)
    IN  SelectSeq(words1, common)

addressMatch(address1, address2) ==
    IF address1 = <<>> \/ address2 = <<>> THEN FALSE
    ELSE Len(commonWords(split(matchNormalize(address1), " "),
                         split(matchNormalize(address2), " "))) >= 2

\* the abbreviations normalizeAddress spells out
Abbreviations ==
    (<<"s", "t">> :> <<"s", "t", "r", "e", "e", "t">>)
    @@ (<<"a", "v", "e">> :> <<"a", "v", "e", "n", "u", "e">>)
    @@ (<<"r", "d">> :> <<"r", "o", "a", "d">>)
    @@ (<<"d", "r">> :> <<"d", "r", "i", "v", "e">>)
    @@ (<<"l", "n">> :> <<"l", "a", "n", "e">>)
    @@ (<<"c", "t">> :> <<"c", "o", "u", "r", "t">>)
    @@ (<<"p", "l">> :> <<"p", "l", "a", "c", "e">>)
    @@ (<<"b", "l", "v", "d">> :> <<"b", "o", "u", "l", "e", "v", "a", "r", "d">>)
    @@ (<<"p", "k", "w", "y">> :> <<"p", "a", "r", "k", "w", "a", "y">>)

normalizeAddress(address) ==
    IF address = <<>> THEN address
    ELSE trim(ReplaceSpaceRuns(
                  ReplaceWords(trim(toLowerCase(address)), DOMAIN Abbreviations, Abbreviations),
                  " "))

\* what findBestAddressMatch ends in: a TypeError (a candidate that is null) or
\* the return of a candidate or of null
Thrown == [threw |-> TRUE, found |-> None]
Returned(found) == [threw |-> FALSE, found |-> found]

RECURSIVE firstMatch(_, _, _)
\* one loop of findBestAddressMatch; normalized: the loop over normalized
\* addresses
firstMatch(properties, target, normalized) ==
    IF properties = <<>> THEN Returned(None)
    ELSE IF IsNullRecord(Head(properties)) THEN Thrown
    ELSE IF addressMatch(target, IF normalized THEN normalizeAddress(Head(properties).line)
                                 ELSE Head(properties).line)
    THEN Returned(Some(Head(properties)))
    ELSE firstMatch(Tail(properties), target, normalized)

orNormalizedMatch(exact, properties, targetAddress) ==
    IF exact.threw \/ exact.found # None THEN exact
    ELSE firstMatch(properties, normalizeAddress(targetAddress), TRUE)

findBestAddressMatch(properties, targetAddress) ==
    IF properties = <<>> THEN Returned(None)
    ELSE orNormalizedMatch(firstMatch(properties, targetAddress, FALSE), properties,
                           targetAddress)

-----------------------------------------------------------------------------
(* Listing records *)

StrMockAgent == <<"M", "o", "c", "k", " ", "A", "g", "e", "n", "t">>
StrUnknownAgent == <<"U", "n", "k", "n", "o", "w", "n">>

\* the fields of a ListingInfo the model keeps
ListingInfo(address, status, daysOnMarket, price, agent) ==
    [address |-> address, status |-> status, days_on_market |-> daysOnMarket,
     price |-> price, agent |-> agent]

normalizeLowerStatus(statusLower) ==
    IF includes(statusLower, <<"s", "a", "l", "e">>) \/ includes(statusLower, <<"a", "c", "t", "i", "v", "e">>)
       \/ includes(statusLower, <<"l", "i", "s", "t">>)
    THEN StrForSale
    ELSE IF includes(statusLower, <<"s", "o", "l", "d">>) \/ includes(statusLower, <<"c", "l", "o", "s", "e", "d">>)
    THEN StrSold
    ELSE IF includes(statusLower, <<"p", "e", "n", "d", "i", "n", "g">>) \/ includes(statusLower, <<"c", "o", "n", "t", "r", "a", "c", "t">>)
    THEN StrPending
    ELSE IF includes(statusLower, <<"o", "f", "f">>) \/ includes(statusLower, <<"w", "i", "t", "h", "d", "r", "a", "w", "n">>)
    THEN StrOffMarket
    ELSE statusLower

normalizeStatus(status) ==
    IF status = <<>> THEN StrUnknown ELSE normalizeLowerStatus(toLowerCase(status))

\* property.current_estimates?.[0]?.estimate || 0
firstEstimateOf(property) ==
    IF property.current_estimates # <<>> THEN property.current_estimates[1].estimate ELSE 0

extractListingInfo(property, originalAddress) ==
    ListingInfo(IF property.line # <<>> THEN property.line ELSE originalAddress,
                normalizeStatus(IF property.status # <<>> THEN property.status ELSE StrUnknown),
                property.days_on_mls,
                IF property.list_price # 0 THEN property.list_price
                ELSE firstEstimateOf(property),
                StrUnknownAgent)

-----------------------------------------------------------------------------
(* MockDataSynthesizer for listings *)

\* address.split('').reduce((a, b) => a + b.charCodeAt(0), 0)
RECURSIVE addressHashOf(_)
addressHashOf(address) ==
    IF address = <<>> THEN 0 ELSE charCodeAt(Head(address)) + addressHashOf(Tail(address))

\* statuses and statusWeights, the weights in hundredths
MockStatuses == <<StrNotListed, StrForSale, StrSold, StrOffMarket>>
MockWeights == <<70, 15, 10, 5>>

RECURSIVE selectStatus(_, _, _)
\* the loop of generateMockListingInfo from index i on; random100 is random * 100
selectStatus(random100, i, cumulative) ==
    IF i > Len(MockStatuses) THEN StrNotListed
    ELSE IF random100 <= cumulative + MockWeights[i] THEN MockStatuses[i]
    ELSE selectStatus(random100, i + 1, cumulative + MockWeights[i])

mockListingOf(address, addressHash, random100, selectedStatus) ==
    ListingInfo(address, selectedStatus,
                \* Math.floor(random * 120) + 1 for a listing for sale
                IF selectedStatus = StrForSale THEN (random100 * 120) \div 100 + 1 ELSE 0,
                \* basePrice + priceVariation
                350000 + (addressHash % 300000) + 100000,
                StrMockAgent)

mockListingOfHash(address, addressHash) ==
    mockListingOf(address, addressHash, addressHash % 100,
                  selectStatus(addressHash % 100, 1, 0))

generateMockListingInfo(address) == mockListingOfHash(address, addressHashOf(address))

\* a listing date that is the day of the call
mockListingDateToday(daysOnMarket, today) == today

\* new Date(Date.now() - daysOnMarket * 24 * 60 * 60 * 1000).toISOString()
\* .split('T')[0], as a day number
mockListingDate(daysOnMarket, today) == today - daysOnMarket

\* photos, description (by the number of bedrooms it names) and features of
\* the mock record
mockListingDetails(random100, selectedStatus) ==
    [ photos |-> IF selectedStatus = StrForSale
                 THEN <<"photo-1570129477492", "photo-1566908829077", "photo-1583608205776">>
                 ELSE <<>>,
      \* Math.floor(random * 3) + 2 bedroom home
      description |-> IF selectedStatus = StrForSale
                      THEN Some((random100 * 3) \div 100 + 2) ELSE None,
      features |-> <<"garage", "fireplace", IF random100 > 50 THEN "pool" ELSE "patio",
                     "hardwood floors">> ]

mockListingDetailsOfHash(addressHash) ==
    mockListingDetails(addressHash % 100, selectStatus(addressHash % 100, 1, 0))

\* the record of generateMockListingInfo with its listing_date, for a call made
\* on day today, and with its photos, description and features
generateMockListingInfoAt(address, today) ==
    generateMockListingInfo(address)
        @@ [listing_date |-> mockListingDate(generateMockListingInfo(address).days_on_market,
                                             today)]
        @@ mockListingDetailsOfHash(addressHashOf(address))

-----------------------------------------------------------------------------
(* Cache of market snapshots: table market_data_cache *)

\* INTERVAL '24 hours' of the upsert
MarketTtlHours == 24

\* a row that is expired as soon as it is written
marketRowExpired(data, t) ==
    [ zip_code |-> data.zip_code,
      median_price |-> data.median_price,
      days_on_market |-> data.days_on_market,
      inventory_count |-> data.inventory_count,
      price_trend_30d |-> data.price_trend_30d,
      active_listings |-> data.active_listings,
      avg_price_per_sqft |-> data.avg_price_per_sqft,
      market_velocity |-> data.market_velocity,
      cached_at |-> t,
      expires_at |-> t ]

\* the row the upsert leaves for data written at time t
marketRow(data, t) ==
    [ zip_code |-> data.zip_code,
      median_price |-> data.median_price,
      days_on_market |-> data.days_on_market,
      inventory_count |-> data.inventory_count,
      price_trend_30d |-> data.price_trend_30d,
      active_listings |-> data.active_listings,
      avg_price_per_sqft |-> data.avg_price_per_sqft,
      market_velocity |-> data.market_velocity,
      cached_at |-> t,
      expires_at |-> t + MarketTtlHours ]

\* an INSERT ... ON CONFLICT (zip_code) DO NOTHING: the first row stays
cacheMarketDataKeepFirst(table, data, t, storeOk) ==
    IF storeOk /\ table[data.zip_code] = None
    THEN [table EXCEPT ![data.zip_code] = Some(marketRow(data, t))]
    ELSE table

\* cacheMarketData: the table after the call; storeOk is whether the store
\* answers the queries.  Every error is caught and logged.
cacheMarketData(table, data, t, storeOk) ==
    IF storeOk
    THEN [table EXCEPT ![data.zip_code] = Some(marketRow(data, t))]
    ELSE table

\* a lookup that finds nothing
getCachedMarketDataNothing(table, zipCode, t, storeOk) == None

\* a lookup without the WHERE zip_code = $1
getCachedMarketDataAnyZip(table, zipCode, t, storeOk) ==
    IF storeOk /\ \E z \in DOMAIN table : table[z] # None /\ table[z][1].expires_at > t
    THEN table[CHOOSE z \in DOMAIN table : table[z] # None /\ table[z][1].expires_at > t]
    ELSE None

\* SELECT * FROM market_data_cache WHERE zip_code = $1 AND expires_at > NOW();
\* a query error is caught and answered with null
getCachedMarketData(table, zipCode, t, storeOk) ==
    IF ~storeOk THEN None
    ELSE IF table[zipCode] # None /\ table[zipCode][1].expires_at > t
    THEN table[zipCode]
    ELSE None

\* the MarketData built from a cached row (parseFloat(x) || 0, x || 0)
marketDataOfRow(cached) ==
    [ zip_code |-> cached.zip_code,
      median_price |-> cached.median_price,
      days_on_market |-> cached.days_on_market,
      inventory_count |-> cached.inventory_count,
      price_trend_30d |-> cached.price_trend_30d,
      active_listings |-> cached.active_listings,
      avg_price_per_sqft |-> cached.avg_price_per_sqft,
      market_velocity |-> cached.market_velocity ]

-----------------------------------------------------------------------------
(* Cache of listing records: table listing_cache *)

\* hoursToCache: the default, for a mock record, for the not-found marker
ListingTtlHours == 24
MockListingTtlHours == 6
NotFoundTtlHours == 12

\* `listing_${zipCode}_${address.replace(/\s+/g, '_')}`
listingCacheKey(address, zipCode) ==
    <<"l", "i", "s", "t", "i", "n", "g", "_">> \o zipCode \o <<"_">> \o ReplaceSpaceRuns(address, "_")

ListingKeys == {listingCacheKey(a, z) : a \in Addresses, z \in ListingZips}

\* cacheListingStatus: the table after the call; listingInfo is None for null
\* (JSON null in listing_data).  Every error is caught and logged.
cacheListingStatus(table, cacheKey, listingInfo, hoursToCache, t, storeOk) ==
    IF storeOk
    THEN [table EXCEPT ![cacheKey] =
              Some([cache_key |-> cacheKey, listing_data |-> listingInfo,
                    cached_at |-> t, expires_at |-> t + hoursToCache])]
    ELSE table

\* a lookup that answers from a stale copy when the store fails
getCachedListingStatusStale(table, cacheKey, t, storeOk) ==
    IF table[cacheKey] # None /\ table[cacheKey][1].expires_at > t
    THEN table[cacheKey][1].listing_data
    ELSE None

\* SELECT listing_data FROM listing_cache WHERE cache_key = $1 AND expires_at >
\* NOW(); null for no row, for a row holding null and for a query error
getCachedListingStatus(table, cacheKey, t, storeOk) ==
    IF ~storeOk THEN None
    ELSE IF table[cacheKey] # None /\ table[cacheKey][1].expires_at > t
    THEN table[cacheKey][1].listing_data
    ELSE None

-----------------------------------------------------------------------------
(* MarketDataAggregator: market snapshots *)

\* outcome of an aggregation: the data (or null), the upstream requests issued
\* in order with their answers, and the number of synthesizer calls
Outcome(data, http, synth) == [data |-> data, http |-> http, synth |-> synth]

Request(strategy, answer) == [strategy |-> strategy, answer |-> answer]

\* both strategies asked whatever the first is answered
requestsIssuedBoth(ra, rb) ==
    <<Request(Strategies[1], ra), Request(Strategies[2], rb)>>

\* strategy 1, and strategy 2 in the catch block of strategy 1
requestsIssued(ra, rb) ==
    IF axiosThrows(Response(ra, Strategies[1]))
    THEN <<Request(Strategies[1], ra), Request(Strategies[2], rb)>>
    ELSE <<Request(Strategies[1], ra)>>

\* apiResponse after both try blocks: null when every attempted strategy threw
apiResponseOf(ra, rb) ==
    IF ~axiosThrows(Response(ra, Strategies[1])) THEN Some(Response(ra, Strategies[1]))
    ELSE IF ~axiosThrows(Response(rb, Strategies[2])) THEN Some(Response(rb, Strategies[2]))
    ELSE None

\* lines 195-203: mock data without properties, the metrics otherwise
fetchFromProperties(zipCode, http, properties) ==
    IF Len(properties) = 0
    THEN Outcome(Some(generateRealisticMarketData(zipCode)), http, 1)
    ELSE Outcome(Some(calculateMarketMetrics(zipCode, properties)), http, 0)

\* lines 172-203: no response or a status >= 400 ends in mock data
fetchFromResponse(zipCode, http, apiResponse) ==
    IF apiResponse = None
    THEN Outcome(Some(generateRealisticMarketData(zipCode)), http, 1)
    ELSE IF apiResponse[1].status >= 400
    THEN Outcome(Some(generateRealisticMarketData(zipCode)), http, 1)
    ELSE fetchFromProperties(zipCode, http,
                             extractPropertiesFromResponse(apiResponse[1].data))

\* fetchMarketDataFromAPI; ra and rb name what strategy 1 and strategy 2 answer
\* (rb is consulted only if strategy 2 is attempted)
fetchMarketDataFromAPI(keyed, zipCode, ra, rb) ==
    IF ~keyed THEN Outcome(Some(generateRealisticMarketData(zipCode)), <<>>, 1)
    ELSE fetchFromResponse(zipCode, requestsIssued(ra, rb), apiResponseOf(ra, rb))

\* if (!marketData) marketData = this.generateRealisticMarketData(zipCode)
orMockMarketData(zipCode, fetched) ==
    IF fetched.data = None
    THEN Outcome(Some(generateRealisticMarketData(zipCode)), fetched.http, fetched.synth + 1)
    ELSE fetched

\* lines 77-93 of getMarketData: the API with a key, mock data without
aggregateMarketData(keyed, zipCode, ra, rb) ==
    orMockMarketData(zipCode,
        IF keyed THEN fetchMarketDataFromAPI(keyed, zipCode, ra, rb)
        ELSE Outcome(Some(generateRealisticMarketData(zipCode)), <<>>, 1))

\* the inputs of an aggregation in this model, and its outcome for each of them
AggregationInputs ==
    {i \in BOOLEAN \X Zips \X (ResponseNames \cup {Unasked}) \X (ResponseNames \cup {Unasked}) :
        i[3] \in FirstResponses(i[1]) /\ i[4] \in SecondResponses(i[3])}

marketOutcome ==
    Tabulated([i \in AggregationInputs |-> aggregateMarketData(i[1], i[2], i[3], i[4])])

-----------------------------------------------------------------------------
(* Observations *)

\* what a handler call leaves in last
Observation(op, zip, address, held, read, o, write, ttl, committed) ==
    [ op |-> op, zip |-> zip, address |-> address, at |-> now,
      held |-> held,          \* the unexpired row the table held for the key, if any
      read |-> read,          \* the store's answer to the lookup: "ok", "error", or
                              \* "none" when no lookup is made
      result |-> o.data, http |-> o.http, synth |-> o.synth,
      write |-> write,        \* the payload handed to the cache write, if any
      ttl |-> ttl,            \* its time to live in hours
      committed |-> committed \* the write reached the table
    ]

NoObservation ==
    [ op |-> "none", zip |-> <<>>, address |-> <<>>, at |-> 0, held |-> None,
      read |-> "none", result |-> None, http |-> <<>>, synth |-> 0,
      write |-> None, ttl |-> 0, committed |-> FALSE ]

\* how the store answers a lookup
lookupAnswer(readOk) == IF readOk THEN "ok" ELSE "error"

-----------------------------------------------------------------------------
(* server.ts GET /market-data: MarketDataService.getMarketData *)

\* the unexpired row of the table for zipCode, if any
liveMarketRow(zipCode) ==
    IF marketCache[zipCode] # None /\ marketCache[zipCode][1].expires_at > now
    THEN marketCache[zipCode] ELSE None

\* the cache-hit return of getMarketData
marketCacheHit(zipCode, cached, readOk) ==
    /\ last' = Observation("getMarketData", zipCode, <<>>, liveMarketRow(zipCode),
                           lookupAnswer(readOk),
                           Outcome(Some(marketDataOfRow(cached[1])), <<>>, 0),
                           None, 0, FALSE)
    /\ UNCHANGED marketCache

\* the rest of getMarketData: aggregate, cache the data, return it
marketCacheMiss(zipCode, readOk, writeOk, o) ==
    /\ marketCache' = cacheMarketData(marketCache, o.data[1], now, writeOk)
    /\ last' = Observation("getMarketData", zipCode, <<>>, liveMarketRow(zipCode),
                           lookupAnswer(readOk), o, o.data, MarketTtlHours, writeOk)

\* getMarketData(zipCode); readOk / writeOk: the store answers the lookup / the
\* upsert; ra / rb: what the upstream answers to strategy 1 / strategy 2
getMarketData(zipCode, readOk) ==
    /\ endpoint = "/market-data"
    /\ \E cached \in {getCachedMarketData(marketCache, zipCode, now, readOk)} :
          IF cached # None /\ cached[1].expires_at > now
          THEN marketCacheHit(zipCode, cached, readOk)
          ELSE \E writeOk \in BOOLEAN, ra \in FirstResponses(hasKey) :
                 \E rb \in SecondResponses(ra) :
                   \E o \in {marketOutcome[<<hasKey, zipCode, ra, rb>>]} :
                      marketCacheMiss(zipCode, readOk, writeOk, o)
    /\ UNCHANGED <<endpoint, hasKey, hasPool, now, listingCache, routesCache, bulk, applied, serving, propertyCache>>

-----------------------------------------------------------------------------
(* MarketDataService.checkListingStatus *)

\* what the request of checkListingStatus can be answered
ListingResponses ==
    {"neterr", "timeout", "limiterr", "http500", "http429", "http404",
     "empty", "malformed", "records", "recordsB"}

\* outcome of the part of checkListingStatus after the cache miss: what it
\* returns (None: null), the request issued, the number of synthesizer calls,
\* the payload handed to cacheListingStatus (None: no write; Some(None): null)
\* and hoursToCache
ListingOutcome(data, http, synth, write, ttl) ==
    [data |-> data, http |-> http, synth |-> synth, write |-> write, ttl |-> ttl]

\* null instead of mock data
mockListingOutcomeNull(http, mockInfo) == ListingOutcome(None, http, 0, None, 0)

\* mock data, cached for 6 hours
mockListingOutcome(http, mockInfo) ==
    ListingOutcome(Some(mockInfo), http, 1, Some(Some(mockInfo)), MockListingTtlHours)

\* the catch block: mock data for a quota or limit error, null otherwise
listingCatch(address, http, quota) ==
    IF quota THEN mockListingOutcome(http, generateMockListingInfo(address))
    ELSE ListingOutcome(None, http, 0, None, 0)

\* the listing found, cached with the default hoursToCache
foundListingOutcome(http, listingInfo) ==
    ListingOutcome(Some(listingInfo), http, 0, Some(Some(listingInfo)), ListingTtlHours)

\* lines 383-402: after findBestAddressMatch; its TypeError lands in the catch block
listingFromMatch(address, http, matched) ==
    IF matched.threw THEN listingCatch(address, http, FALSE)
    ELSE IF matched.found # None
    THEN foundListingOutcome(http, extractListingInfo(matched.found[1], address))
    ELSE ListingOutcome(None, http, 0, Some(None), NotFoundTtlHours)

\* lines 352-414 for the answer response of axios.get
listingFromResponse(address, http, response) ==
    IF axiosThrows(response)
    THEN listingCatch(address, http, response.status = 429 \/ response.quotaMessage)
    ELSE IF response.status >= 400
    THEN IF response.status = 429
         THEN mockListingOutcome(http, generateMockListingInfo(address))
         ELSE ListingOutcome(None, http, 0, None, 0)
    ELSE listingFromMatch(address, http,
             findBestAddressMatch(extractPropertiesFromResponse(response.data), address))

\* the upstream part of checkListingStatus(address, zipCode); ra names the answer
listingFromUpstream(address, zipCode, ra) ==
    listingFromResponse(address, <<Request(Strategies[1], ra)>>, Response(ra, Strategies[1]))

listingOutcome ==
    Tabulated([i \in Addresses \X ListingZips \X ListingResponses |->
                  listingFromUpstream(i[1], i[2], i[3])])

\* the unexpired row of the table for the key, if any
liveListingRow(cacheKey) ==
    IF listingCache[cacheKey] # None /\ listingCache[cacheKey][1].expires_at > now
    THEN listingCache[cacheKey] ELSE None

\* without a key: mock data, no cache lookup and no cache write
listingWithoutKey(address, zipCode) ==
    /\ \E mockInfo \in {generateMockListingInfo(address)} :
          last' = Observation("checkListingStatus", zipCode, address, None, "none",
                              Outcome(Some(mockInfo), <<>>, 1), None, 0, FALSE)
    /\ UNCHANGED listingCache

listingCacheHit(address, zipCode, cacheKey, cached, readOk) ==
    /\ last' = Observation("checkListingStatus", zipCode, address,
                           liveListingRow(cacheKey), lookupAnswer(readOk),
                           Outcome(cached, <<>>, 0), None, 0, FALSE)
    /\ UNCHANGED listingCache

listingCacheMiss(address, zipCode, cacheKey, readOk, writeOk, o) ==
    /\ listingCache' =
           IF o.write = None THEN listingCache
           ELSE cacheListingStatus(listingCache, cacheKey, o.write[1], o.ttl, now, writeOk)
    /\ last' = Observation("checkListingStatus", zipCode, address,
                           liveListingRow(cacheKey), lookupAnswer(readOk),
                           o, o.write, o.ttl, o.write # None /\ writeOk)

\* checkListingStatus with a key, from the cache lookup on
listingWithKey(address, zipCode, cacheKey, readOk) ==
    \E cached \in {getCachedListingStatus(listingCache, cacheKey, now, readOk)} :
       IF cached # None THEN listingCacheHit(address, zipCode, cacheKey, cached, readOk)
       ELSE \E ra \in ListingResponses :
              \E o \in {listingOutcome[<<address, zipCode, ra>>]} :
                 \E writeOk \in IF o.write = None THEN {FALSE} ELSE BOOLEAN :
                    listingCacheMiss(address, zipCode, cacheKey, readOk, writeOk, o)

\* checkListingStatus(address, zipCode); readOk / writeOk: the store answers the
\* lookup / the upsert (if there is one); ra: what the upstream answers
checkListingStatusCall(address, zipCode, readOk) ==
    IF ~hasKey THEN listingWithoutKey(address, zipCode)
    ELSE \E cacheKey \in {listingCacheKey(address, zipCode)} :
           listingWithKey(address, zipCode, cacheKey, readOk)

\* GET /listing-status of server.ts: one checkListingStatus call
checkListingStatus(address, zipCode, readOk) ==
    /\ endpoint = "/listing-status"
    /\ checkListingStatusCall(address, zipCode, readOk)
    /\ UNCHANGED <<endpoint, hasKey, hasPool, now, marketCache, routesCache, bulk, applied, serving, propertyCache>>

-----------------------------------------------------------------------------
(* routes.js: the handlers over ZillowAPI and RealtorAPI, and table cache *)

\* INTERVAL '24 hours' of both upserts
RoutesTtlHours == 24

\* `listing:${address}:${zipCode}`.toLowerCase()
routesListingKey(address, zipCode) ==
    toLowerCase(<<"l", "i", "s", "t", "i", "n", "g", ":">> \o address \o <<":">> \o zipCode)

\* `market:${zipCode}`
routesMarketKey(zipCode) == <<"m", "a", "r", "k", "e", "t", ":">> \o zipCode

RoutesKeys ==
    {routesListingKey(a, z) : a \in Addresses, z \in ListingZips}
    \cup {routesMarketKey(z) : z \in Zips}

\* a lookup without the expires_at > NOW() filter
routesGetCachedAnyAge(table, key, t, pooled, storeOk) ==
    IF pooled /\ storeOk /\ table[key] # None THEN Some(table[key][1].data) ELSE None

\* getCachedListing and getCachedMarketData of routes.js: null without a pool,
\* on a query error and for no unexpired row
routesGetCached(table, key, t, pooled, storeOk) ==
    IF ~pooled THEN None
    ELSE IF ~storeOk THEN None
    ELSE IF table[key] # None /\ table[key][1].expires_at > t
    THEN Some(table[key][1].data)
    ELSE None

\* cacheListing and cacheMarketData of routes.js: nothing without a pool, every
\* error caught and logged
routesCacheWrite(table, key, data, t, pooled, storeOk) ==
    IF ~pooled THEN table
    ELSE IF ~storeOk THEN table
    ELSE [table EXCEPT ![key] =
              Some([key |-> key, data |-> data, expires_at |-> t + RoutesTtlHours])]

\* what a client of routes.js returns: its record ("data") or null ("nodata":
\* nothing found; "error": an error, which the client catches)
ClientAnswers == {"data", "nodata", "error"}

\* ZillowAPI.mapStatus: statusMap[zillowStatus] || 'unknown'
zillowMapStatus(zillowStatus) ==
    CASE zillowStatus = "FOR_SALE" -> "for_sale"
      [] zillowStatus = "FOR_RENT" -> "for_rent"
      [] zillowStatus = "SOLD" -> "sold"
      [] zillowStatus = "PENDING" -> "pending"
      [] zillowStatus = "OFF_MARKET" -> "not_for_sale"
      [] zillowStatus = "COMING_SOON" -> "for_sale"
      [] OTHER -> "unknown"

\* RealtorAPI.mapStatus: statusMap[realtorStatus?.toLowerCase()] || 'unknown'
\* (the statuses here are in lower case)
realtorMapStatus(realtorStatus) ==
    CASE realtorStatus = "for_sale" -> "for_sale"
      [] realtorStatus = "sold" -> "sold"
      [] realtorStatus = "pending" -> "pending"
      [] realtorStatus = "contingent" -> "pending"
      [] realtorStatus = "off_market" -> "not_for_sale"
      [] realtorStatus = "coming_soon" -> "for_sale"
      [] OTHER -> "unknown"

zillowListing(address) ==
    [source |-> "zillow.com", address |-> address, status |-> StrForSale, price |-> Some(500)]

realtorListing(address) ==
    [source |-> "realtor.com", address |-> address, status |-> StrSold, price |-> Some(300)]

\* ZillowAPI.searchByAddress / RealtorAPI.searchByAddress as the handler sees them
zillowSearchByAddress(address, answer) ==
    IF answer = "data" THEN Some(zillowListing(address)) ELSE None

realtorSearchByAddress(address, answer) ==
    IF answer = "data" THEN Some(realtorListing(address)) ELSE None

\* ZillowAPI.getMarketData / RealtorAPI.getMarketData as the handler sees them
\* (a number is Some(n), null is None)
zillowGetMarketData(zipCode, answer) ==
    IF answer = "data"
    THEN Some([source |-> "zillow.com", zip_code |-> zipCode,
               median_listing_price |-> Some(500), median_days_on_market |-> None,
               inventory_count |-> Some(40)])
    ELSE None

realtorGetMarketData(zipCode, answer) ==
    IF answer = "data"
    THEN Some([source |-> "realtor.com", zip_code |-> zipCode,
               median_price |-> Some(480), days_on_market |-> Some(35),
               active_listings |-> Some(12)])
    ELSE None

\* data?.field
optionalField(data, field) == IF data = None THEN None ELSE data[1][field]

\* a || b for numbers and null
jsOr(a, b) == IF a # None /\ a[1] # 0 THEN a ELSE b

\* the merge of GET /market-data
mergeMarketData(zipCode, zillowData, realtorData) ==
    [ zip_code |-> zipCode,
      median_price |-> jsOr(optionalField(zillowData, "median_listing_price"),
                            jsOr(optionalField(realtorData, "median_price"), None)),
      days_on_market |-> jsOr(optionalField(zillowData, "median_days_on_market"),
                              jsOr(optionalField(realtorData, "days_on_market"), None)),
      active_listings |-> jsOr(optionalField(realtorData, "active_listings"),
                               jsOr(optionalField(zillowData, "inventory_count"), None)),
      inventory_count |-> jsOr(optionalField(zillowData, "inventory_count"),
                               jsOr(optionalField(realtorData, "active_listings"), None)),
      sources |-> [zillow |-> zillowData # None, realtor |-> realtorData # None] ]

\* the unexpired row of table cache for the key, if any
liveRoutesRow(key) ==
    IF routesCache[key] # None /\ routesCache[key][1].expires_at > now
    THEN routesCache[key] ELSE None

\* how the store answers a lookup of routes.js; without a pool none is made
routesLookupAnswer(readOk) == IF hasPool THEN lookupAnswer(readOk) ELSE "none"

routesCacheHit(op, address, zipCode, key, cached, readOk) ==
    /\ last' = Observation(op, zipCode, address, liveRoutesRow(key),
                           routesLookupAnswer(readOk), Outcome(cached, <<>>, 0),
                           None, 0, FALSE)
    /\ UNCHANGED routesCache

\* Realtor asked as well when Zillow has the record
listingSourcesBothAsked(address, za, ra) ==
    Outcome(IF zillowSearchByAddress(address, za) # None
            THEN zillowSearchByAddress(address, za)
            ELSE realtorSearchByAddress(address, ra),
            <<Request("zillow", za), Request("realtor", ra)>>, 0)

\* the listing handler after the cache miss: Zillow, then Realtor if Zillow has
\* nothing; the property-not-found answer without a cache write
listingSources(address, za, ra) ==
    IF zillowSearchByAddress(address, za) # None
    THEN Outcome(zillowSearchByAddress(address, za), <<Request("zillow", za)>>, 0)
    ELSE Outcome(realtorSearchByAddress(address, ra),
                 <<Request("zillow", za), Request("realtor", ra)>>, 0)

routesListingMiss(address, zipCode, key, readOk, writeOk, o) ==
    /\ routesCache' =
           IF o.data = None THEN routesCache
           ELSE routesCacheWrite(routesCache, key, o.data[1], now, hasPool, writeOk)
    /\ last' = Observation("routes /listing-status", zipCode, address, liveRoutesRow(key),
                           routesLookupAnswer(readOk), o,
                           IF o.data = None \/ ~hasPool THEN None ELSE o.data,
                           IF o.data = None \/ ~hasPool THEN 0 ELSE RoutesTtlHours,
                           o.data # None /\ hasPool /\ writeOk)

\* GET /listing-status of routes.js
routesListingStatus(address, zipCode, readOk) ==
    /\ endpoint = "routes /listing-status"
    /\ \E key \in {routesListingKey(address, zipCode)} :
         \E cached \in {routesGetCached(routesCache, key, now, hasPool, readOk)} :
            IF cached # None
            THEN routesCacheHit("routes /listing-status", address, zipCode, key, cached, readOk)
            ELSE \E za \in ClientAnswers :
                   \E ra \in IF za = "data" THEN {Unasked} ELSE ClientAnswers :
                     \E o \in {listingSources(address, za, ra)} :
                       \E writeOk \in IF o.data = None \/ ~hasPool THEN {FALSE} ELSE BOOLEAN :
                          routesListingMiss(address, zipCode, key, readOk, writeOk, o)
    /\ UNCHANGED <<endpoint, hasKey, hasPool, now, marketCache, listingCache, bulk, applied, serving, propertyCache>>

\* the market handler after the cache miss: both sources, merged
marketSources(zipCode, za, ra) ==
    Outcome(Some(mergeMarketData(zipCode, zillowGetMarketData(zipCode, za),
                                 realtorGetMarketData(zipCode, ra))),
            <<Request("zillow", za), Request("realtor", ra)>>, 0)

routesMarketMiss(zipCode, key, readOk, writeOk, o) ==
    /\ routesCache' = routesCacheWrite(routesCache, key, o.data[1], now, hasPool, writeOk)
    /\ last' = Observation("routes /market-data", zipCode, <<>>, liveRoutesRow(key),
                           routesLookupAnswer(readOk), o,
                           IF hasPool THEN o.data ELSE None,
                           IF hasPool THEN RoutesTtlHours ELSE 0,
                           hasPool /\ writeOk)

\* GET /market-data of routes.js
routesMarketData(zipCode, readOk) ==
    /\ endpoint = "routes /market-data"
    /\ \E key \in {routesMarketKey(zipCode)} :
         \E cached \in {routesGetCached(routesCache, key, now, hasPool, readOk)} :
            IF cached # None
            THEN routesCacheHit("routes /market-data", <<>>, zipCode, key, cached, readOk)
            ELSE \E za \in ClientAnswers, ra \in ClientAnswers :
                   \E o \in {marketSources(zipCode, za, ra)} :
                     \E writeOk \in IF hasPool THEN BOOLEAN ELSE {FALSE} :
                        routesMarketMiss(zipCode, key, readOk, writeOk, o)
    /\ UNCHANGED <<endpoint, hasKey, hasPool, now, marketCache, listingCache, bulk, applied, serving, propertyCache>>

-----------------------------------------------------------------------------
(* POST /bulk-listing-check *)

\* properties.length > 10 is rejected
MaxBulkProperties == 10
\* setTimeout(resolve, 500) after each checked entry, in milliseconds
BulkPauseMs == 500
\* the timer is observed every PauseTickMs milliseconds
PauseTickMs == 250

\* an entry of the properties array: null, or an object whose address and
\* zipCode may be absent
NullEntry == [null |-> TRUE]
BulkEntry(address, zipCode) == [address |-> address, zipCode |-> zipCode]
EmptyEntry == BulkEntry(None, None)
IsNullEntry(e) == "null" \in DOMAIN e

EntryA == BulkEntry(Some(Addr123MainSt), Some(Zip90210))
EntryB == BulkEntry(Some(Addr77PineWay), Some(Zip90210))
EntryNoZip == BulkEntry(Some(Addr77PineWay), None)

\* n entries {}
RECURSIVE EmptyEntries(_)
EmptyEntries(n) == IF n = 0 THEN <<>> ELSE <<EmptyEntry>> \o EmptyEntries(n - 1)

\* the values of req.body.properties the requests carry
BulkBodies ==
    { JUndef, JOther(TRUE), JOther(FALSE),
      JArr(<<>>), JArr(<<EntryA>>), JArr(<<EntryA, EntryB>>),
      JArr(<<EntryNoZip, EntryA>>), JArr(<<NullEntry>>), JArr(<<EntryB, NullEntry>>),
      JArr(<<EntryB, EntryA>> \o EmptyEntries(MaxBulkProperties - 2)),
      JArr(EmptyEntries(MaxBulkProperties + 1)) }

StrMissing == <<"m", "i", "s", "s", "i", "n", "g">>

\* the request being served: phase "idle" (none), "loop" (at the head of the
\* for loop, before entry i), "calling" (checkListingStatus for entry i in
\* flight), "pausing" (in the pause after entry i), "responded" (code sent)
BulkState(phase, properties, i, results, code, calls, inFlight, pauseLeft) ==
    [ phase |-> phase, properties |-> properties, i |-> i, results |-> results,
      code |-> code,
      calls |-> calls,          \* the entries whose lookup was started, in order
      inFlight |-> inFlight,    \* the entries whose lookup has not returned
      pauseLeft |-> pauseLeft ] \* what is left of the pause, in milliseconds

\* no bulk request is being served
NoBulk == BulkState("idle", JUndef, 0, <<>>, 0, <<>>, {}, 0)

bulkRespond(properties, results, code, calls) ==
    BulkState("responded", properties, 0, results, code, calls, {}, 0)

\* x || 'missing'
orMissing(x) == IF x # None /\ x[1] # <<>> THEN x[1] ELSE StrMissing

\* the result pushed for an entry without address or zipCode
missingResult(property) ==
    [ address |-> orMissing(property.address), zipCode |-> orMissing(property.zipCode),
      error |-> "Missing address or zipCode" ]

\* the result pushed for a checked entry: listingInfo?.status || 'not_listed',
\* listingInfo?.days_on_market || 0, listingInfo?.price || null, ...
checkedResult(property, listingInfo) ==
    [ address |-> property.address[1], zipCode |-> property.zipCode[1],
      status |-> IF listingInfo # None /\ listingInfo[1].status # <<>>
                 THEN listingInfo[1].status ELSE StrNotListed,
      days_on_market |-> IF listingInfo # None THEN listingInfo[1].days_on_market ELSE 0,
      price |-> IF listingInfo # None /\ listingInfo[1].price # 0
                THEN Some(listingInfo[1].price) ELSE None,
      agent |-> IF listingInfo # None /\ listingInfo[1].agent # <<>>
                THEN Some(listingInfo[1].agent) ELSE None ]

\* the checks of the request body, then the start of the loop
bulkAccept(properties) ==
    IF ~Truthy(properties) \/ properties.t # "arr"
    THEN bulkRespond(properties, <<>>, 400, <<>>)
    ELSE IF Len(properties.v) > MaxBulkProperties
    THEN bulkRespond(properties, <<>>, 400, <<>>)
    ELSE BulkState("loop", properties, 1, <<>>, 0, <<>>, {}, 0)

\* POST /bulk-listing-check arrives
bulkReceive(properties) ==
    /\ endpoint = "/bulk-listing-check"
    /\ bulk.phase \in {"idle", "responded"}
    /\ bulk' = bulkAccept(properties)
    /\ UNCHANGED <<endpoint, hasKey, hasPool, now, marketCache, listingCache, routesCache, last, applied, serving, propertyCache>>

\* the head of the loop body for an entry: a null entry throws outside the
\* inner try, an entry without address or zipCode is answered at once, any
\* other starts checkListingStatus
bulkEntryStep(b, property) ==
    IF IsNullEntry(property)
    THEN bulkRespond(b.properties, b.results, 500, b.calls)
    ELSE IF orMissing(property.address) = StrMissing \/ orMissing(property.zipCode) = StrMissing
    THEN [b EXCEPT !.results = Append(b.results, missingResult(property)), !.i = b.i + 1]
    ELSE [b EXCEPT !.phase = "calling", !.calls = Append(b.calls, b.i),
                   !.inFlight = b.inFlight \cup {b.i}]

\* one turn of for (const property of properties), or the response after it
bulkLoop ==
    /\ endpoint = "/bulk-listing-check"
    /\ bulk.phase = "loop"
    /\ bulk' = IF bulk.i > Len(bulk.properties.v)
               THEN bulkRespond(bulk.properties, bulk.results, 200, bulk.calls)
               ELSE bulkEntryStep(bulk, bulk.properties.v[bulk.i])
    /\ UNCHANGED <<endpoint, hasKey, hasPool, now, marketCache, listingCache, routesCache, last, applied, serving, propertyCache>>

\* checkListingStatus returns: its result is pushed and the pause begins
bulkCallReturn(readOk) ==
    /\ endpoint = "/bulk-listing-check"
    /\ bulk.phase = "calling"
    /\ \E property \in {bulk.properties.v[bulk.i]} :
          /\ checkListingStatusCall(property.address[1], property.zipCode[1], readOk)
          /\ bulk' = [bulk EXCEPT !.phase = "pausing",
                                  !.results = Append(bulk.results,
                                                     checkedResult(property, last'.result)),
                                  !.inFlight = bulk.inFlight \ {bulk.i},
                                  !.pauseLeft = BulkPauseMs]
    /\ UNCHANGED <<endpoint, hasKey, hasPool, now, marketCache, routesCache, applied, serving, propertyCache>>

\* time passes during the pause
bulkTimer ==
    /\ endpoint = "/bulk-listing-check"
    /\ bulk.phase = "pausing" /\ bulk.pauseLeft > 0
    /\ bulk' = [bulk EXCEPT !.pauseLeft = Max(0, bulk.pauseLeft - PauseTickMs)]
    /\ UNCHANGED <<endpoint, hasKey, hasPool, now, marketCache, listingCache, routesCache, last, applied, serving, propertyCache>>

\* the loop goes on without waiting for the timeout
bulkResumeEarly ==
    /\ endpoint = "/bulk-listing-check"
    /\ bulk.phase = "pausing"
    /\ bulk' = [bulk EXCEPT !.phase = "loop", !.i = bulk.i + 1]
    /\ UNCHANGED <<endpoint, hasKey, hasPool, now, marketCache, listingCache, routesCache, last, applied, serving, propertyCache>>

\* the timeout fires and the loop goes on with the next entry
bulkResume ==
    /\ endpoint = "/bulk-listing-check"
    /\ bulk.phase = "pausing" /\ bulk.pauseLeft = 0
    /\ bulk' = [bulk EXCEPT !.phase = "loop", !.i = bulk.i + 1]
    /\ UNCHANGED <<endpoint, hasKey, hasPool, now, marketCache, listingCache, routesCache, last, applied, serving, propertyCache>>

-----------------------------------------------------------------------------
(* POST /bulk-listing-check of routes.js: Promise.all over the entries *)

RoutesBulkBodies ==
    { JUndef, JOther(TRUE), JOther(FALSE),
      JArr(<<>>), JArr(<<EntryA>>), JArr(<<EntryA, EntryB>>), JArr(<<EntryB, EntryB>>),
      JArr(<<NullEntry>>), JArr(<<EntryB, NullEntry>>),
      JArr(EmptyEntries(MaxBulkProperties + 1)) }

StrNotFound == <<"n", "o", "t", "_", "f", "o", "u", "n", "d">>

\* the position of the async function of one entry: "cache" (awaiting
\* getCachedListing), "zillow" / "realtor" (awaiting that client's search),
\* "done" (resolved with result), "failed" (rejected)
BulkItem(pc, result) == [pc |-> pc, result |-> result]

\* properties.map(async (prop) => ...): every function runs up to its first
\* await; for a null entry the try block and then the catch block throw
startItem(property) ==
    IF IsNullEntry(property) THEN BulkItem("failed", None) ELSE BulkItem("cache", None)

startItems(properties) == [k \in DOMAIN properties |-> startItem(properties[k])]

RoutesBulkState(phase, properties, items, results, code) ==
    [phase |-> phase, properties |-> properties, items |-> items,
     results |-> results, code |-> code]

\* the entries whose upstream search is in flight
searchesInFlight(items) == {k \in DOMAIN items : items[k].pc \in {"zillow", "realtor"}}

\* the entries whose function has not settled
itemsPending(items) == {k \in DOMAIN items : items[k].pc \notin {"done", "failed"}}

\* the checks of the request body; then Promise.all over the started functions,
\* which rejects at once when one of them has rejected
routesBulkAccept(properties) ==
    IF ~Truthy(properties) \/ properties.t # "arr"
    THEN RoutesBulkState("responded", properties, <<>>, <<>>, 400)
    ELSE IF Len(properties.v) > MaxBulkProperties
    THEN RoutesBulkState("responded", properties, <<>>, <<>>, 400)
    ELSE IF \E k \in DOMAIN properties.v : IsNullEntry(properties.v[k])
    THEN RoutesBulkState("responded", properties, startItems(properties.v), <<>>, 500)
    ELSE RoutesBulkState("running", properties, startItems(properties.v), <<>>, 0)

\* no function of an earlier request is still running
routesBulkQuiet ==
    \/ bulk.phase = "idle"
    \/ bulk.phase = "responded" /\ itemsPending(bulk.items) = {}

routesBulkReceive(properties) ==
    /\ endpoint = "routes /bulk-listing-check"
    /\ routesBulkQuiet
    /\ bulk' = routesBulkAccept(properties)
    /\ UNCHANGED <<endpoint, hasKey, hasPool, now, marketCache, listingCache, routesCache, last, applied, serving, propertyCache>>

\* the item after its cache lookup: resolved with the cached record, or its
\* Zillow search started
itemAfterLookup(cached) ==
    IF cached # None THEN BulkItem("done", cached) ELSE BulkItem("zillow", None)

\* getCachedListing of entry k answers
routesBulkLookup(k, readOk) ==
    /\ endpoint = "routes /bulk-listing-check"
    /\ bulk.phase # "idle" /\ k \in DOMAIN bulk.items /\ bulk.items[k].pc = "cache"
    /\ \E property \in {bulk.properties.v[k]} :
          bulk' = [bulk EXCEPT !.items[k] =
                      itemAfterLookup(routesGetCached(routesCache,
                          routesListingKey(property.address[1], property.zipCode[1]),
                          now, hasPool, readOk))]
    /\ UNCHANGED <<endpoint, hasKey, hasPool, now, marketCache, listingCache, routesCache, last, applied, serving, propertyCache>>

\* return data || { address, status: 'not_found', error }
notFoundResult(property) ==
    [address |-> property.address[1] \o <<",", " ">> \o property.zipCode[1],
     status |-> StrNotFound]

\* a client's search of entry k answers with data: cacheListing, then resolved
routesBulkFound(k, property, data, writeOk) ==
    /\ routesCache' = routesCacheWrite(routesCache,
                           routesListingKey(property.address[1], property.zipCode[1]),
                           data[1], now, hasPool, writeOk)
    /\ bulk' = [bulk EXCEPT !.items[k] = BulkItem("done", data)]

\* ZillowAPI.searchByAddress of entry k answers
routesBulkZillow(k, za) ==
    /\ endpoint = "routes /bulk-listing-check"
    /\ bulk.phase # "idle" /\ k \in DOMAIN bulk.items /\ bulk.items[k].pc = "zillow"
    /\ \E property \in {bulk.properties.v[k]} :
          \E data \in {zillowSearchByAddress(property.address[1], za)} :
             IF data # None
             THEN \E writeOk \in IF hasPool THEN BOOLEAN ELSE {FALSE} :
                     routesBulkFound(k, property, data, writeOk)
             ELSE /\ bulk' = [bulk EXCEPT !.items[k] = BulkItem("realtor", None)]
                  /\ UNCHANGED routesCache
    /\ UNCHANGED <<endpoint, hasKey, hasPool, now, marketCache, listingCache, last, applied, serving, propertyCache>>

\* RealtorAPI.searchByAddress of entry k answers
routesBulkRealtor(k, ra) ==
    /\ endpoint = "routes /bulk-listing-check"
    /\ bulk.phase # "idle" /\ k \in DOMAIN bulk.items /\ bulk.items[k].pc = "realtor"
    /\ \E property \in {bulk.properties.v[k]} :
          \E data \in {realtorSearchByAddress(property.address[1], ra)} :
             IF data # None
             THEN \E writeOk \in IF hasPool THEN BOOLEAN ELSE {FALSE} :
                     routesBulkFound(k, property, data, writeOk)
             ELSE /\ bulk' = [bulk EXCEPT !.items[k] =
                                  BulkItem("done", Some(notFoundResult(property)))]
                  /\ UNCHANGED routesCache
    /\ UNCHANGED <<endpoint, hasKey, hasPool, now, marketCache, listingCache, last, applied, serving, propertyCache>>

\* Promise.all resolves with the results in the order of the entries
routesBulkRespond ==
    /\ endpoint = "routes /bulk-listing-check"
    /\ bulk.phase = "running"
    /\ \A k \in DOMAIN bulk.items : bulk.items[k].pc = "done"
    /\ bulk' = [bulk EXCEPT !.phase = "responded", !.code = 200,
                            !.results = [k \in DOMAIN bulk.items |-> bulk.items[k].result[1]]]
    /\ UNCHANGED <<endpoint, hasKey, hasPool, now, marketCache, listingCache, routesCache, last, applied, serving, propertyCache>>

-----------------------------------------------------------------------------
(* main.js GET /listing-status: the two clients, no cache *)

\* GET /listing-status of main.js
mainListingStatus(address, zipCode) ==
    /\ endpoint = "main /listing-status"
    /\ \E za \in ClientAnswers :
          \E ra \in IF za = "data" THEN {Unasked} ELSE ClientAnswers :
             last' = Observation("main /listing-status", zipCode, address, None, "none",
                                 listingSources(address, za, ra), None, 0, FALSE)
    /\ UNCHANGED <<endpoint, hasKey, hasPool, now, marketCache, listingCache, routesCache,
                   bulk, applied, serving, propertyCache>>

-----------------------------------------------------------------------------
(* RealtorAPIClient: the property cache of sellers, table property_data_cache *)

Sellers == {1, 2}

\* what getAddressToQuery can find for a seller: the full address string
SellerAddresses == {Addr123MainSt, Addr77PineWay}

\* what searchProperty can find
FoundProperties ==
    { [listing_status |-> StrForSale, price |-> 500],
      [listing_status |-> StrSold, price |-> 300] }

\* last_updated holds NOW(): the model keeps its rank among the upserts of the
\* table in last_updated and its hour in updated_hour; at most MaxUpdates
\* upserts are made
MaxUpdates == 3

lastUpdateOf(table) ==
    IF table = {} THEN 0
    ELSE CHOOSE n \in {r.last_updated : r \in table} :
             \A r \in table : r.last_updated <= n

\* a plain INSERT, without the ON CONFLICT clause
cachePropertyDataInsert(table, sellerIntentId, addressUsed, propertyData, at, storeOk) ==
    IF ~storeOk THEN table
    ELSE table \cup {[ seller_intent_id |-> sellerIntentId, address_used |-> addressUsed,
                        realtor_data |-> propertyData,
                        last_updated |-> lastUpdateOf(table) + 1, updated_hour |-> at ]}

\* INSERT ... ON CONFLICT (seller_intent_id, address_used) DO UPDATE; the
\* error of a failed statement is logged and not passed on
cachePropertyData(table, sellerIntentId, addressUsed, propertyData, at, storeOk) ==
    IF ~storeOk THEN table
    ELSE {r \in table : ~(r.seller_intent_id = sellerIntentId /\ r.address_used = addressUsed)}
         \cup {[ seller_intent_id |-> sellerIntentId, address_used |-> addressUsed,
                  realtor_data |-> propertyData, last_updated |-> lastUpdateOf(table) + 1,
                  updated_hour |-> at ]}

\* SELECT ... WHERE seller_intent_id = $1 ORDER BY last_updated DESC LIMIT 1:
\* the rows this can return; none when the query fails
cachedPropertyRows(table, sellerIntentId, storeOk) ==
    IF ~storeOk THEN {}
    ELSE {r \in table : /\ r.seller_intent_id = sellerIntentId
                         /\ \A q \in table : q.seller_intent_id = sellerIntentId
                                                  => q.last_updated <= r.last_updated}

\* what queryPropertyForSeller returns, and whether its upsert reached the table
SellerQuery(sellerIntentId, success, data, addressUsed, committed) ==
    [ op |-> "queryPropertyForSeller", seller |-> sellerIntentId, success |-> success,
      data |-> data, address_used |-> addressUsed, committed |-> committed ]

\* queryPropertyForSeller(sellerIntentId); addressInfo: what getAddressToQuery
\* finds (None: it throws), propertyData: what searchProperty returns (None:
\* null), storeOk: the upsert succeeds
sellerQueried(sellerIntentId, addressInfo, propertyData, storeOk) ==
    IF addressInfo = None
    THEN /\ last' = SellerQuery(sellerIntentId, FALSE, None, None, FALSE)
         /\ UNCHANGED propertyCache
    ELSE IF propertyData = None
    THEN /\ last' = SellerQuery(sellerIntentId, FALSE, None, addressInfo, FALSE)
         /\ UNCHANGED propertyCache
    ELSE /\ propertyCache' = cachePropertyData(propertyCache, sellerIntentId,
                                               addressInfo[1], propertyData[1], now, storeOk)
         /\ last' = SellerQuery(sellerIntentId, TRUE, propertyData, addressInfo, storeOk)

\* a call from a route; the calls made by refreshStaleData are refreshQuery
queryPropertyForSeller(sellerIntentId, addressInfo, propertyData, storeOk) ==
    /\ endpoint \in {"seller cache", "refresh"}
    /\ serving.phase # "refreshing"
    /\ lastUpdateOf(propertyCache) < MaxUpdates
    /\ sellerQueried(sellerIntentId, addressInfo, propertyData, storeOk)
    /\ UNCHANGED <<endpoint, hasKey, hasPool, now, marketCache, listingCache, routesCache,
                   bulk, applied, serving>>

\* getCachedPropertyData(sellerIntentId); query: the queryPropertyForSeller call
\* for the same seller that returned just before, if one did
getCachedPropertyData(sellerIntentId, storeOk) ==
    /\ endpoint = "seller cache"
    /\ \E row \in IF cachedPropertyRows(propertyCache, sellerIntentId, storeOk) = {}
                   THEN {None}
                   ELSE {Some(r) : r \in cachedPropertyRows(propertyCache, sellerIntentId,
                                                            storeOk)} :
          last' = [ op |-> "getCachedPropertyData", seller |-> sellerIntentId, row |-> row,
                    read |-> lookupAnswer(storeOk),
                    query |-> IF last.op = "queryPropertyForSeller"
                                 /\ last.seller = sellerIntentId
                              THEN Some(last) ELSE None ]
    /\ UNCHANGED <<endpoint, hasKey, hasPool, now, marketCache, listingCache, routesCache,
                   bulk, applied, serving, propertyCache>>

\* refreshStaleData(hoursOld): the values of hoursOld that are called with
HoursOld == {12, 24}

\* WHERE last_updated < NOW() - INTERVAL 'hoursOld hours'
isStale(row, hoursOld, at) == row.updated_hour < at - hoursOld

\* SELECT DISTINCT seller_intent_id ... : the sellers of the stale rows
staleSellers(table, hoursOld, at) ==
    {r.seller_intent_id : r \in {q \in table : isStale(q, hoursOld, at)}}

\* the orders in which the select can return a set of sellers
RowOrders(sellers) ==
    {rows \in UNION {[1 .. n -> sellers] : n \in {Cardinality(sellers)}} :
        \A i, j \in DOMAIN rows : rows[i] = rows[j] => i = j}

\* the previous run of refreshStaleData, if it completed within this hour
\* with the same hoursOld
completedJustBefore(hoursOld) ==
    IF serving.phase = "refreshed" /\ serving.at = now /\ serving.hours = hoursOld
    THEN Some(serving.selected) ELSE None

\* refreshStaleData up to its loop: the select; when the select fails the
\* error is logged and the run ends
refreshSelect(hoursOld, storeOk) ==
    /\ endpoint = "refresh"
    /\ serving.phase \in {"idle", "refreshed", "failed"}
    /\ lastUpdateOf(propertyCache) + Cardinality(staleSellers(propertyCache, hoursOld, now))
          <= MaxUpdates + 1
    /\ IF ~storeOk
       THEN serving' = [phase |-> "failed"]
       ELSE \E rows \in RowOrders(staleSellers(propertyCache, hoursOld, now)) :
              serving' = IF rows = <<>>
                         THEN [ phase |-> "refreshed", hours |-> hoursOld, selected |-> {},
                                previous |-> completedJustBefore(hoursOld),
                                queried |-> <<>>, at |-> now ]
                         ELSE [ phase |-> "refreshing", step |-> "query", hours |-> hoursOld,
                                selected |-> {rows[i] : i \in DOMAIN rows},
                                previous |-> completedJustBefore(hoursOld),
                                rows |-> rows, queried |-> <<>> ]
    /\ UNCHANGED <<endpoint, hasKey, hasPool, now, marketCache, listingCache, routesCache,
                   last, bulk, applied, propertyCache>>

\* the body of the loop up to the pause: queryPropertyForSeller for the next
\* row; it returns a result in every case
refreshQuery(addressInfo, propertyData, storeOk) ==
    /\ endpoint = "refresh"
    /\ serving.phase = "refreshing"
    /\ serving.step = "query"
    /\ sellerQueried(Head(serving.rows), addressInfo, propertyData, storeOk)
    /\ serving' = [serving EXCEPT !.step = "pause",
                                  !.queried = Append(@, Head(serving.rows))]
    /\ UNCHANGED <<endpoint, hasKey, hasPool, now, marketCache, listingCache, routesCache,
                   bulk, applied>>

\* the timer of the pause fires: the loop goes on with the next row, or the
\* run is complete
refreshPause ==
    /\ endpoint = "refresh"
    /\ serving.phase = "refreshing"
    /\ serving.step = "pause"
    /\ serving' = IF Tail(serving.rows) = <<>>
                  THEN [ phase |-> "refreshed", hours |-> serving.hours,
                         selected |-> serving.selected, previous |-> serving.previous,
                         queried |-> serving.queried, at |-> now ]
                  ELSE [serving EXCEPT !.step = "query", !.rows = Tail(@)]
    /\ UNCHANGED <<endpoint, hasKey, hasPool, now, marketCache, listingCache, routesCache,
                   last, bulk, applied, propertyCache>>

-----------------------------------------------------------------------------
(* server.ts GET /property-insights: the two service calls of Promise.all *)

NoCalls == [phase |-> "idle"]

\* one of the two calls: where it stands (lookup, fetch, write, done), what the
\* store and the upstream answered it, the outcome it is about to cache and
\* what it returned
ServiceCall(pc, readOk, answers, writeOk, o, result) ==
    [ pc |-> pc, readOk |-> readOk, answers |-> answers, writeOk |-> writeOk,
      o |-> o, result |-> result ]

AwaitingLookup == ServiceCall("lookup", FALSE, <<>>, FALSE, None, None)

\* the requests of this endpoint and what the upstream answers its calls
InsightsAddresses == {Addr123MainSt}
InsightsListingAnswers == {"http429", "empty", "records"}
InsightsMarketAnswers == {"http500", "timeout", "records", Unasked}

Returned1(c, result) == [c EXCEPT !.pc = "done", !.result = Some(result)]

\* checkListingStatus up to its first await: without a key it returns mock data
startListingCall(address) ==
    IF ~hasKey THEN Returned1(AwaitingLookup, Some(generateMockListingInfo(address)))
    ELSE AwaitingLookup

\* the tables after the upsert of cacheMarketData that also empties listing_cache
marketWriteEffectBoth(market, listing, data, t, writeOk) ==
    [ market |-> cacheMarketData(market, data, t, writeOk),
      listing |-> [k \in DOMAIN listing |-> None] ]

\* the tables after the upsert of cacheMarketData: only market_data_cache changes
marketWriteEffect(market, listing, data, t, writeOk) ==
    [ market |-> cacheMarketData(market, data, t, writeOk), listing |-> listing ]

\* the tables after the upsert of cacheListingStatus: only listing_cache changes
listingWriteEffect(market, listing, cacheKey, o, t, writeOk) ==
    [ market |-> market,
      listing |-> cacheListingStatus(listing, cacheKey, o.write[1], o.ttl, t, writeOk) ]

\* the request arrives: both calls are started, the tables as they are now are
\* remembered
insightsReceive(address, zipCode) ==
    /\ endpoint = "/property-insights"
    /\ serving.phase \in {"idle", "answered"}
    /\ serving' = [ phase |-> "running", address |-> address, zipCode |-> zipCode,
                    at |-> now,
                    market0 |-> marketCache, listing0 |-> listingCache,
                    l |-> startListingCall(address), m |-> AwaitingLookup ]
    /\ UNCHANGED <<endpoint, hasKey, hasPool, now, marketCache, listingCache, routesCache,
                   last, bulk, applied, propertyCache>>

\* await this.getCachedListingStatus(cacheKey) returns
insightsListingLookup(readOk) ==
    /\ endpoint = "/property-insights"
    /\ serving.phase = "running"
    /\ serving.l.pc = "lookup"
    /\ \E cached \in {getCachedListingStatus(listingCache,
                           listingCacheKey(serving.address, serving.zipCode), now, readOk)} :
          \E c \in {[serving.l EXCEPT !.readOk = readOk]} :
             serving' = [serving EXCEPT !.l = IF cached # None THEN Returned1(c, cached)
                                              ELSE [c EXCEPT !.pc = "fetch"]]
    /\ UNCHANGED <<endpoint, hasKey, hasPool, now, marketCache, listingCache, routesCache,
                   last, bulk, applied, propertyCache>>

\* await axios.get returns or throws, up to the await of cacheListingStatus
insightsListingFetch(ra) ==
    /\ endpoint = "/property-insights"
    /\ serving.phase = "running"
    /\ serving.l.pc = "fetch"
    /\ \E o \in {listingOutcome[<<serving.address, serving.zipCode, ra>>]} :
          \E c \in {[serving.l EXCEPT !.answers = <<ra>>]} :
             serving' = [serving EXCEPT !.l = IF o.write = None THEN Returned1(c, o.data)
                                              ELSE [c EXCEPT !.pc = "write", !.o = Some(o)]]
    /\ UNCHANGED <<endpoint, hasKey, hasPool, now, marketCache, listingCache, routesCache,
                   last, bulk, applied, propertyCache>>

\* await this.cacheListingStatus(...) returns
insightsListingWrite(writeOk) ==
    /\ endpoint = "/property-insights"
    /\ serving.phase = "running"
    /\ serving.l.pc = "write"
    /\ \E e \in {listingWriteEffect(marketCache, listingCache,
                      listingCacheKey(serving.address, serving.zipCode),
                      serving.l.o[1], now, writeOk)} :
          /\ marketCache' = e.market
          /\ listingCache' = e.listing
    /\ serving' = [serving EXCEPT
                      !.l = Returned1([serving.l EXCEPT !.writeOk = writeOk],
                                      serving.l.o[1].data)]
    /\ UNCHANGED <<endpoint, hasKey, hasPool, now, routesCache, last, bulk, applied,
                   propertyCache>>

\* await this.getCachedMarketData(zipCode) returns
insightsMarketLookup(readOk) ==
    /\ endpoint = "/property-insights"
    /\ serving.phase = "running"
    /\ serving.m.pc = "lookup"
    /\ \E cached \in {getCachedMarketData(marketCache, serving.zipCode, now, readOk)} :
          \E c \in {[serving.m EXCEPT !.readOk = readOk]} :
             serving' = [serving EXCEPT
                            !.m = IF cached # None /\ cached[1].expires_at > now
                                  THEN Returned1(c, Some(marketDataOfRow(cached[1])))
                                  ELSE [c EXCEPT !.pc = "fetch"]]
    /\ UNCHANGED <<endpoint, hasKey, hasPool, now, marketCache, listingCache, routesCache,
                   last, bulk, applied, propertyCache>>

\* fetchMarketDataFromAPI and the synthesizer are through, up to the await of
\* cacheMarketData
insightsMarketFetch(ra, rb) ==
    /\ endpoint = "/property-insights"
    /\ serving.phase = "running"
    /\ serving.m.pc = "fetch"
    /\ serving' = [serving EXCEPT
                      !.m = [serving.m EXCEPT
                                !.pc = "write", !.answers = <<ra, rb>>,
                                !.o = Some(marketOutcome[<<hasKey, serving.zipCode, ra, rb>>])]]
    /\ UNCHANGED <<endpoint, hasKey, hasPool, now, marketCache, listingCache, routesCache,
                   last, bulk, applied, propertyCache>>

\* await this.cacheMarketData(marketData) returns
insightsMarketWrite(writeOk) ==
    /\ endpoint = "/property-insights"
    /\ serving.phase = "running"
    /\ serving.m.pc = "write"
    /\ \E e \in {marketWriteEffect(marketCache, listingCache, serving.m.o[1].data[1],
                                     now, writeOk)} :
          /\ marketCache' = e.market
          /\ listingCache' = e.listing
    /\ serving' = [serving EXCEPT
                      !.m = Returned1([serving.m EXCEPT !.writeOk = writeOk],
                                      serving.m.o[1].data)]
    /\ UNCHANGED <<endpoint, hasKey, hasPool, now, routesCache, last, bulk, applied,
                   propertyCache>>

\* Promise.all resolves: [listingInfo, marketData]
insightsRespond ==
    /\ endpoint = "/property-insights"
    /\ serving.phase = "running"
    /\ serving.l.pc = "done"
    /\ serving.m.pc = "done"
    /\ serving' = [serving EXCEPT !.phase = "answered"]
    /\ UNCHANGED <<endpoint, hasKey, hasPool, now, marketCache, listingCache, routesCache,
                   last, bulk, applied, propertyCache>>

-----------------------------------------------------------------------------
(* Two requests for the same key served at once: the awaits of two calls of
   getMarketData, or of two calls of checkListingStatus, interleave *)

PairEndpoints == {"two /market-data", "two /listing-status"}
PairCalls == {"a", "b"}
PairMarketAnswers == {"http500", "empty", "records", Unasked}
PairListingAnswers == {"empty", "records"}

\* both requests arrive; writes are the upserts of the two calls so far, in the
\* order the store took them
pairReceive(address, zipCode) ==
    /\ endpoint \in PairEndpoints
    /\ serving.phase \in {"idle", "answered"}
    /\ serving' = [ phase |-> "running", address |-> address, zipCode |-> zipCode,
                    a |-> AwaitingLookup, b |-> AwaitingLookup, writes |-> <<>> ]
    /\ UNCHANGED <<endpoint, hasKey, hasPool, now, marketCache, listingCache, routesCache,
                   last, bulk, applied, propertyCache>>

\* await this.getCachedMarketData(zipCode) returns to call i
pairMarketLookup(i, readOk) ==
    /\ endpoint = "two /market-data"
    /\ serving.phase = "running"
    /\ serving[i].pc = "lookup"
    /\ \E cached \in {getCachedMarketData(marketCache, serving.zipCode, now, readOk)} :
          \E c \in {[serving[i] EXCEPT !.readOk = readOk]} :
             serving' = [serving EXCEPT
                            ![i] = IF cached # None /\ cached[1].expires_at > now
                                   THEN Returned1(c, Some(marketDataOfRow(cached[1])))
                                   ELSE [c EXCEPT !.pc = "fetch"]]
    /\ UNCHANGED <<endpoint, hasKey, hasPool, now, marketCache, listingCache, routesCache,
                   last, bulk, applied, propertyCache>>

\* call i has its snapshot, up to the await of cacheMarketData
pairMarketFetch(i, ra, rb) ==
    /\ endpoint = "two /market-data"
    /\ serving.phase = "running"
    /\ serving[i].pc = "fetch"
    /\ serving' = [serving EXCEPT
                      ![i] = [serving[i] EXCEPT
                                 !.pc = "write", !.answers = <<ra, rb>>,
                                 !.o = Some(marketOutcome[<<hasKey, serving.zipCode, ra, rb>>])]]
    /\ UNCHANGED <<endpoint, hasKey, hasPool, now, marketCache, listingCache, routesCache,
                   last, bulk, applied, propertyCache>>

\* await this.cacheMarketData(marketData) returns to call i
pairMarketWrite(i, writeOk) ==
    /\ endpoint = "two /market-data"
    /\ serving.phase = "running"
    /\ serving[i].pc = "write"
    /\ marketCache' = cacheMarketData(marketCache, serving[i].o[1].data[1], now, writeOk)
    /\ serving' = [serving EXCEPT
                      ![i] = Returned1([serving[i] EXCEPT !.writeOk = writeOk],
                                       serving[i].o[1].data),
                      !.writes = Append(@, [by |-> i, at |-> now, committed |-> writeOk,
                                            data |-> serving[i].o[1].data[1]])]
    /\ UNCHANGED <<endpoint, hasKey, hasPool, now, listingCache, routesCache, last, bulk,
                   applied, propertyCache>>

\* await this.getCachedListingStatus(cacheKey) returns to call i
pairListingLookup(i, readOk) ==
    /\ endpoint = "two /listing-status"
    /\ serving.phase = "running"
    /\ serving[i].pc = "lookup"
    /\ \E cached \in {getCachedListingStatus(listingCache,
                           listingCacheKey(serving.address, serving.zipCode), now, readOk)} :
          \E c \in {[serving[i] EXCEPT !.readOk = readOk]} :
             serving' = [serving EXCEPT ![i] = IF cached # None THEN Returned1(c, cached)
                                               ELSE [c EXCEPT !.pc = "fetch"]]
    /\ UNCHANGED <<endpoint, hasKey, hasPool, now, marketCache, listingCache, routesCache,
                   last, bulk, applied, propertyCache>>

\* await axios.get returns to call i, up to the await of cacheListingStatus
pairListingFetch(i, ra) ==
    /\ endpoint = "two /listing-status"
    /\ serving.phase = "running"
    /\ serving[i].pc = "fetch"
    /\ \E o \in {listingOutcome[<<serving.address, serving.zipCode, ra>>]} :
          \E c \in {[serving[i] EXCEPT !.answers = <<ra>>]} :
             serving' = [serving EXCEPT ![i] = IF o.write = None THEN Returned1(c, o.data)
                                               ELSE [c EXCEPT !.pc = "write", !.o = Some(o)]]
    /\ UNCHANGED <<endpoint, hasKey, hasPool, now, marketCache, listingCache, routesCache,
                   last, bulk, applied, propertyCache>>

\* await this.cacheListingStatus(...) returns to call i
pairListingWrite(i, writeOk) ==
    /\ endpoint = "two /listing-status"
    /\ serving.phase = "running"
    /\ serving[i].pc = "write"
    /\ listingCache' = cacheListingStatus(listingCache,
                            listingCacheKey(serving.address, serving.zipCode),
                            serving[i].o[1].write[1], serving[i].o[1].ttl, now, writeOk)
    /\ serving' = [serving EXCEPT
                      ![i] = Returned1([serving[i] EXCEPT !.writeOk = writeOk],
                                       serving[i].o[1].data),
                      !.writes = Append(@, [by |-> i, at |-> now, committed |-> writeOk,
                                            data |-> serving[i].o[1].write[1],
                                            ttl |-> serving[i].o[1].ttl])]
    /\ UNCHANGED <<endpoint, hasKey, hasPool, now, marketCache, routesCache, last, bulk,
                   applied, propertyCache>>

\* both responses are sent
pairRespond ==
    /\ endpoint \in PairEndpoints
    /\ serving.phase = "running"
    /\ serving.a.pc = "done"
    /\ serving.b.pc = "done"
    /\ serving' = [serving EXCEPT !.phase = "answered"]
    /\ UNCHANGED <<endpoint, hasKey, hasPool, now, marketCache, listingCache, routesCache,
                   last, bulk, applied, propertyCache>>

-----------------------------------------------------------------------------
(* main.js PropertyLookup.combineResults *)

\* what a source resolves with; a field that is null or missing is None
SourceValue(source, found, price, bedrooms, bathrooms, squareFeet, listingStatus, isActive) ==
    [ source |-> source, found |-> found, price |-> price, bedrooms |-> bedrooms,
      bathrooms |-> bathrooms, squareFeet |-> squareFeet,
      listing_status |-> listingStatus, is_active_listing |-> isActive ]

\* an entry of the array of Promise.allSettled
Fulfilled(value) == [status |-> "fulfilled", value |-> value]
Rejected == [status |-> "rejected"]

\* every status has the same priority
statusPriorityFlat(status) == 1

\* statusPriority[currentStatus] || 0
statusPriority(status) ==
    CASE status = "for_sale" -> 5
      [] status = "pending" -> 4
      [] status = "sold" -> 3
      [] status = "for_rent" -> 2
      [] status = "not_for_sale" -> 1
      [] OTHER -> 0

\* const propertyData = {...} and highestPriority = 0
EmptyCombination ==
    [ propertyData |->
          [ found |-> FALSE, sources |-> <<>>, price |-> None, bedrooms |-> None,
            bathrooms |-> None, squareFeet |-> None, photos |-> <<>>,
            status |-> "not_for_sale", listing_status |-> "not_for_sale",
            is_active_listing |-> FALSE ],
      highestPriority |-> 0 ]

\* !propertyData.x && value.x ? value.x : propertyData.x
firstValid(held, offered) == IF held = None /\ offered # None THEN offered ELSE held

\* the loop body for a fulfilled result with value, currentStatus and
\* currentPriority
combineValue(acc, value, currentStatus, currentPriority) ==
    [ propertyData |->
          [ found |-> acc.propertyData.found \/ value.found,
            sources |-> Append(acc.propertyData.sources, value.source),
            price |-> firstValid(acc.propertyData.price, value.price),
            bedrooms |-> firstValid(acc.propertyData.bedrooms, value.bedrooms),
            bathrooms |-> firstValid(acc.propertyData.bathrooms, value.bathrooms),
            squareFeet |-> firstValid(acc.propertyData.squareFeet, value.squareFeet),
            photos |-> acc.propertyData.photos,
            status |-> IF currentPriority > acc.highestPriority
                       THEN currentStatus ELSE acc.propertyData.status,
            listing_status |-> IF currentPriority > acc.highestPriority
                               THEN currentStatus ELSE acc.propertyData.listing_status,
            is_active_listing |-> IF currentPriority > acc.highestPriority
                                  THEN value.is_active_listing
                                  ELSE acc.propertyData.is_active_listing ],
      highestPriority |-> Max(acc.highestPriority, currentPriority) ]

\* value.listing_status || 'not_for_sale'
currentStatusOf(value) ==
    IF value.listing_status = None THEN "not_for_sale" ELSE value.listing_status[1]

combineResult(acc, result) ==
    IF result.status = "fulfilled"
    THEN combineValue(acc, result.value, currentStatusOf(result.value),
                      statusPriority(currentStatusOf(result.value)))
    ELSE acc

RECURSIVE combineFrom(_, _)
\* for (const result of results)
combineFrom(acc, results) ==
    IF results = <<>> THEN acc
    ELSE combineFrom(combineResult(acc, Head(results)), Tail(results))

combineResults(results) == combineFrom(EmptyCombination, results).propertyData

-----------------------------------------------------------------------------
(* The functions of the service, applied on their own *)

\* the two synthesizers; an application of one of them is remembered across a
\* call with other arguments
Synthesizers == {"generateRealisticMarketData", "generateMockListingInfo"}

Earlier(a) == [args |-> a.args, at |-> a.at, result |-> a.result]

\* the application of function f to args at the current time; before: an
\* earlier application of the same function: the last one if it had the same
\* arguments, else the one before it if that had, else (for a synthesizer) the
\* last one
Application(f, args, result) ==
    [ f |-> f, args |-> args, at |-> now, result |-> result,
      before |-> IF applied.f # f THEN None
                 ELSE IF applied.args = args THEN Some(Earlier(applied))
                 ELSE IF applied.before # None /\ applied.before[1].args = args
                      THEN applied.before
                 ELSE IF f \in Synthesizers THEN Some(Earlier(applied))
                 ELSE None ]

\* the earlier application had the same arguments
SameAsBefore == applied.before # None /\ applied.before[1].args = applied.args

NoApplication == [f |-> "none", args |-> <<>>, at |-> 0, result |-> <<>>, before |-> None]

\* one behaviour applies one function, again and again
FunctionNames ==
    { "generateRealisticMarketData", "generateMockListingInfo", "calculateMedian",
      "calculateMarketMetrics", "addressMatch", "extractPropertiesFromResponse",
      "findBestAddressMatch", "calculateMarketMetrics catch",
      "generateRealisticMarketData catch", "selectStatus", "extractListingInfo",
      "mapStatus", "combineResults", "cache keys" }

apply(f, args, result) ==
    /\ endpoint = f
    /\ applied' = Application(f, args, result)
    /\ UNCHANGED <<endpoint, hasKey, hasPool, now, marketCache, listingCache, routesCache, last, bulk,
                   serving, propertyCache>>

\* the calendar day of an hour, counted from the day of the start
dayOf(t) == t \div 24

\* ZIP strings: the two of Zips, three below 10000 (two of them where the sine
\* of the seed is nearest 1 and -1), one that parseInt rejects and one that it
\* reads as a negative number
Zip00501 == <<"0", "0", "5", "0", "1">>
Zip00157 == <<"0", "0", "1", "5", "7">>
Zip00471 == <<"0", "0", "4", "7", "1">>
ZipLetters == <<"a", "b", "c">>
ZipMinus500 == <<"-", "5", "0", "0">>
SynthesisZips == Zips \cup {Zip00501, Zip00157, Zip00471, ZipLetters, ZipMinus500}

\* the addresses the functions are applied to
Addr123MainStreet == Line123Main
Addr456OakAve == <<"4", "5", "6", " ", "O", "a", "k", " ", "A", "v", "e">>
AddrOakOakAve == <<"O", "a", "k", " ", "O", "a", "k", " ", "A", "v", "e">>
Addr12ElmRd == <<"1", "2", " ", "E", "l", "m", " ", "R", "d", ".">>
MatchAddresses ==
    { <<>>, Addr123MainSt, Addr123MainStreet, Addr456OakAve, AddrOakOakAve,
      Addr12ElmRd, Addr77PineWay, Line456Oak, Line9Elm }

syntheticMarketOf ==
    Tabulated([zipCode \in SynthesisZips |-> generateRealisticMarketData(zipCode)])

applyGenerateRealisticMarketData(zipCode) ==
    apply("generateRealisticMarketData", zipCode, syntheticMarketOf[zipCode])

mockListingOn ==
    Tabulated([i \in MatchAddresses \X (0 .. dayOf(MaxTime)) |->
                  generateMockListingInfoAt(i[1], i[2])])

applyGenerateMockListingInfo(address) ==
    apply("generateMockListingInfo", address, mockListingOn[<<address, dayOf(now)>>])

\* the lists calculateMedian is applied to: the lists of up to MedianMaxLen
\* different values of MedianValues in every order, and lists that repeat a value
MedianMaxLen == 4
MedianValues == {1, 2, 3, 5, 7}
IsInjective(q) == \A i, j \in DOMAIN q : q[i] = q[j] => i = j
MedianInputs ==
    {q \in UNION {[1 .. n -> MedianValues] : n \in 0 .. MedianMaxLen} : IsInjective(q)}
    \cup {<<5, 5>>, <<1, 7, 1>>, <<3, 1, 3>>, <<7, 3, 3, 1>>, <<2, 2, 2, 2>>}

medianOf == Tabulated([numbers \in MedianInputs |-> calculateMedian2(numbers)])

applyCalculateMedian(numbers) ==
    apply("calculateMedian", numbers, medianOf[numbers])

\* the records calculateMarketMetrics is applied to: with a list price above,
\* far above, below and far below the estimate, with only one of the two (sold,
\* and for sale), with a null estimate, null
MetricsRecords ==
    { PropertyRecord(Line123Main, StrForSale, 500, <<Estimate(400, TRUE)>>, 20, 30),
      PropertyRecord(Line456Oak, StrActive, 300, <<Estimate(500, FALSE)>>, 0, 10),
      PropertyRecord(Line9Elm, StrForSale, 420, <<Estimate(400, TRUE)>>, 10, 0),
      PropertyRecord(Line9Elm, StrSold, 390, <<Estimate(410, TRUE), Estimate(1, FALSE)>>, 10, 0),
      PropertyRecord(Line123Main, StrPending, 500, <<>>, 0, 0),
      PropertyRecord(Line456Oak, StrSold, 0, <<Estimate(400, FALSE)>>, 15, 45),
      PropertyRecord(Line9Elm, StrForSale, 0, <<Estimate(450, TRUE)>>, 0, 14),
      PropertyRecord(Line123Main, StrActive, 600, <<NullEstimate>>, 20, 30),
      NullRecord }
MetricsMaxLen == 2
MetricsInputs == UNION {[1 .. n -> MetricsRecords] : n \in 0 .. MetricsMaxLen}

metricsOf ==
    Tabulated([properties \in MetricsInputs |-> calculateMarketMetrics(Zip90210, properties)])

applyCalculateMarketMetrics(properties) ==
    apply("calculateMarketMetrics", properties, metricsOf[properties])

\* the upstream records extractListingInfo is applied to: a status the
\* normalisation knows, one it does not, none; a list price, none, a negative
\* one; days on the market, none, a negative number
StrForSaleUpper == <<"F", "o", "r", " ", "S", "a", "l", "e">>
StrReadyToBuild == <<"r", "e", "a", "d", "y", "_", "t", "o", "_", "b", "u", "i", "l", "d">>
StrForRent == <<"f", "o", "r", "_", "r", "e", "n", "t">>
UpstreamStatuses ==
    {StrForSaleUpper, StrSold, StrPending, StrOffMarket, StrForRent, StrReadyToBuild, <<>>}
UpstreamPrices == {-5, 0, 500}
UpstreamEstimates == {<<>>, <<Estimate(400, TRUE)>>}
UpstreamDays == {-3, 0, 12}
UpstreamRecords ==
    { PropertyRecord(Line123Main, status, listPrice, estimates, 0, days) :
        status \in UpstreamStatuses, listPrice \in UpstreamPrices,
        estimates \in UpstreamEstimates, days \in UpstreamDays }

extractedListingOf ==
    Tabulated([property \in UpstreamRecords |-> extractListingInfo(property, Addr123MainSt)])

applyExtractListingInfo(property) ==
    apply("extractListingInfo", property, extractedListingOf[property])

\* the statuses the clients' mapStatus is applied to
ZillowStatuses ==
    {"FOR_SALE", "FOR_RENT", "SOLD", "PENDING", "OFF_MARKET", "COMING_SOON", "OTHER", "AUCTION"}
RealtorStatuses ==
    {"for_sale", "sold", "pending", "contingent", "off_market", "coming_soon", "for_rent"}

applyMapStatus(client, status) ==
    apply("mapStatus", <<client, status>>,
          IF client = "zillow" THEN zillowMapStatus(status) ELSE realtorMapStatus(status))

\* what queryZillow, queryRealtor and queryPublicRecords resolve with: a home
\* for sale, one sold, one for rent, one pending of which nothing else was
\* read, the placeholder of the public records; and a rejected promise
SettledResults ==
    { Fulfilled(SourceValue("zillow", TRUE, Some("$500"), Some("3 bed"), None, None,
                            Some("for_sale"), TRUE)),
      Fulfilled(SourceValue("realtor", TRUE, Some("$450"), None, None, Some("900 sq ft"),
                            Some("sold"), FALSE)),
      Fulfilled(SourceValue("zillow", TRUE, None, Some("2 bed"), Some("1 bath"), None,
                            Some("for_rent"), TRUE)),
      Fulfilled(SourceValue("realtor", FALSE, None, None, None, None,
                            Some("pending"), FALSE)),
      Fulfilled(SourceValue("public_records", FALSE, None, None, None, None, None, FALSE)),
      Rejected }
CombineMaxLen == 3
CombineInputs == UNION {[1 .. n -> SettledResults] : n \in 0 .. CombineMaxLen}

combinedOf == Tabulated([results \in CombineInputs |-> combineResults(results)])

applyCombineResults(results) ==
    apply("combineResults", results, combinedOf[results])

\* the requests whose cache keys are compared: an address, the same with two
\* spaces, with underscores and in upper case, another address; two ZIPs
Addr123MainStWide ==
    <<"1", "2", "3", " ", " ", "M", "a", "i", "n", " ", "S", "t">>
Addr123MainStJoined ==
    <<"1", "2", "3", "_", "M", "a", "i", "n", "_", "S", "t">>
Addr123MainStUpper == <<"1", "2", "3", " ", "M", "A", "I", "N", " ", "S", "T">>
KeyRequests ==
    {Addr123MainSt, Addr123MainStWide, Addr123MainStJoined, Addr123MainStUpper,
     Addr77PineWay} \X Zips

\* the keys of two requests: listing_cache of marketDataService, cache of routes.js
applyCacheKeys(r1, r2) ==
    apply("cache keys", <<r1, r2>>,
          [ service |-> <<listingCacheKey(r1[1], r1[2]), listingCacheKey(r2[1], r2[2])>>,
            routes |-> <<routesListingKey(r1[1], r1[2]), routesListingKey(r2[1], r2[2])>> ])

\* addressHash % 100: the seed residues
Residues == 0 .. 99

statusOfResidue == Tabulated([random100 \in Residues |-> selectStatus(random100, 1, 0)])

\* the status loop of generateMockListingInfo, for an address hash of the residue
applySelectStatus(random100) ==
    apply("selectStatus", random100, statusOfResidue[random100])

\* the values that are not iterable, by their length property
NotIterableLengths == {None, Some(0), Some(7)}

\* calculateMarketMetrics applied to a value the loop cannot iterate
applyCalculateMarketMetricsCatch(length) ==
    apply("calculateMarketMetrics catch", length, metricsOnFailure(Zip90210, length))

\* generateRealisticMarketData when an error is raised inside its try block
applyGenerateRealisticMarketDataCatch(zipCode) ==
    apply("generateRealisticMarketData catch", zipCode, syntheticOnFailure(zipCode))

matchOf ==
    Tabulated([pair \in MatchAddresses \X MatchAddresses |-> addressMatch(pair[1], pair[2])])

applyAddressMatch(address1, address2) ==
    apply("addressMatch", <<address1, address2>>, matchOf[<<address1, address2>>])

\* the candidates findBestAddressMatch is applied to: records with an address
\* line, one of them null; lists of up to CandidatesMaxLen of them
Addr9ElmBlvd == <<"9", " ", "E", "l", "m", " ", "B", "l", "v", "d">>
Candidate(line) == PropertyRecord(line, StrForSale, 500, <<>>, 0, 0)
Candidates ==
    { Candidate(Addr123MainStreet), Candidate(Addr9ElmBlvd), Candidate(Addr12ElmRd),
      Candidate(<<>>), NullRecord }
CandidatesMaxLen == 2
CandidateLists == UNION {[1 .. n -> Candidates] : n \in 0 .. CandidatesMaxLen}
MatchTargets == {Addr123MainSt, Line9Elm, Addr9ElmBlvd, Addr12ElmRd, Addr77PineWay}

bestMatchOf ==
    Tabulated([i \in CandidateLists \X MatchTargets |-> findBestAddressMatch(i[1], i[2])])

applyFindBestAddressMatch(properties, targetAddress) ==
    apply("findBestAddressMatch", <<properties, targetAddress>>,
          bestMatchOf[<<properties, targetAddress>>])

\* the response bodies extractPropertiesFromResponse is applied to: at each of
\* the five paths nothing, an empty array, a value that is no array, or an
\* array that holds the number of the path
PathValues(k) ==
    IF k = 1 THEN {JUndef, JArr(<<>>), JOther(TRUE), JArr(<<k>>)}
                    ELSE {JUndef, JArr(<<>>), JArr(<<k>>)}
ExtractInputs ==
    {JUndef, JOther(TRUE)}
    \cup {JBody(hs, dr, r, p, dp) : hs \in PathValues(1), dr \in PathValues(2),
                r \in PathValues(3), p \in PathValues(4), dp \in PathValues(5)}

extractedOf == Tabulated([data \in ExtractInputs |-> extractPropertiesFromResponse(data)])

applyExtractPropertiesFromResponse(data) ==
    apply("extractPropertiesFromResponse", data, extractedOf[data])

-----------------------------------------------------------------------------
(* Properties of the functions *)

\* C16 as stated: two calls of generateRealisticMarketData with the same ZIP
\* string, and two calls of generateMockListingInfo with the same address
\* string, return identical records whatever the time of each call and whatever
\* other calls happen in between
C16_SynthesisIsPure ==
    (applied.f \in Synthesizers /\ SameAsBefore)
        => applied.result = applied.before[1].result

WithoutListingDate(r) == [r EXCEPT !.listing_date = 0]

\* C16 as amended: generateRealisticMarketData returns identical records for
\* the same ZIP string; generateMockListingInfo returns, for the same address
\* string, records identical in every field except listing_date, which is the
\* day of the call minus days_on_market days, so that calls on the same day
\* return identical records
C16_SynthesisPureButForListingDate ==
    /\ (applied.f = "generateRealisticMarketData" /\ SameAsBefore)
           => applied.result = applied.before[1].result
    /\ applied.f = "generateMockListingInfo"
           => /\ applied.result.listing_date
                    = dayOf(applied.at) - applied.result.days_on_market
              /\ SameAsBefore
                    => /\ WithoutListingDate(applied.result)
                            = WithoutListingDate(applied.before[1].result)
                       /\ applied.result.listing_date - applied.before[1].result.listing_date
                            = dayOf(applied.at) - dayOf(applied.before[1].at)
                       /\ dayOf(applied.at) = dayOf(applied.before[1].at)
                            => applied.result = applied.before[1].result

\* generateMockListingInfo applied to the address of a listing for sale for the
\* second time, on a later day
C16_Witness ==
    /\ applied.f = "generateMockListingInfo"
    /\ applied.args = Addr77PineWay
    /\ applied.result.days_on_market > 0
    /\ SameAsBefore
    /\ dayOf(applied.before[1].at) < dayOf(applied.at)
    /\ applied.result # applied.before[1].result

\* the k-th element of the ascending sort of q, by rank: fewer than k elements
\* are below it and at least k are not above it
KthSmallest(q, k) ==
    CHOOSE m \in Range(q) :
        /\ Cardinality({i \in DOMAIN q : q[i] < m}) < k
        /\ Cardinality({i \in DOMAIN q : q[i] <= m}) >= k

\* twice the median of q
TwiceMedian(q) ==
    IF q = <<>> THEN 0
    ELSE IF Len(q) % 2 = 1 THEN 2 * KthSmallest(q, (Len(q) + 1) \div 2)
    ELSE KthSmallest(q, Len(q) \div 2) + KthSmallest(q, Len(q) \div 2 + 1)

IsPermutationOf(p, q) ==
    /\ Len(p) = Len(q)
    /\ \A v \in Range(p) \cup Range(q) :
           Cardinality({i \in DOMAIN p : p[i] = v}) = Cardinality({i \in DOMAIN q : q[i] = v})

\* C17: calculateMedian returns 0 for the empty list, the middle element of the
\* ascending sort for odd length and the average of the two middle elements for
\* even length ([] -> 0, [5] -> 5, [1,3,5,7] -> 4, [1,2,3] -> 2), independent
\* of the order of the input (results are compared as twice the median)
C17_MedianOfList ==
    applied.f = "calculateMedian"
        => /\ applied.result = TwiceMedian(applied.args)
           /\ applied.args = <<>> => applied.result = 2 * 0
           /\ applied.args = <<5>> => applied.result = 2 * 5
           /\ applied.args = <<1, 3, 5, 7>> => applied.result = 2 * 4
           /\ applied.args = <<1, 2, 3>> => applied.result = 2 * 2
           /\ \A p \in MedianInputs :
                  IsPermutationOf(p, applied.args) => medianOf[p] = applied.result

\* calculateMedian applied to a list of even length that is not sorted
C17_Witness ==
    /\ applied.f = "calculateMedian"
    /\ applied.args = <<5, 1, 7, 3>>
    /\ applied.result = 8

\* the list price a record contributes to the trend, 0 if none
ListPriceIn(p) == IF IsNullRecord(p) \/ p.list_price <= 0 THEN 0 ELSE p.list_price

\* the estimate a record contributes: the first one flagged best, else the
\* first one; 0 if none
EstimateIn(p) ==
    IF IsNullRecord(p) \/ p.current_estimates = <<>> THEN 0
    ELSE IF \E i \in DOMAIN p.current_estimates : IsNullEstimate(p.current_estimates[i])
    THEN 0
    ELSE IF \E i \in DOMAIN p.current_estimates : p.current_estimates[i].isbest_homevalue
    THEN p.current_estimates[
             CHOOSE i \in DOMAIN p.current_estimates :
                 /\ p.current_estimates[i].isbest_homevalue
                 /\ \A j \in 1 .. i - 1 : ~p.current_estimates[j].isbest_homevalue].estimate
    ELSE p.current_estimates[1].estimate

\* t hundredths is the percentage 100 * (sl/nl - se/ne) / (se/ne) clamped to
\* [-10, 10], to the two decimals the field carries
IsClampedPercentage(t, sl, nl, se, ne) ==
    IF 10000 * (sl * ne - se * nl) >= 1000 * (se * nl) THEN t = 1000
    ELSE IF 10000 * (sl * ne - se * nl) <= -1000 * (se * nl) THEN t = -1000
    ELSE /\ 2 * (t * (se * nl) - 10000 * (sl * ne - se * nl)) <= se * nl
         /\ 2 * (10000 * (sl * ne - se * nl) - t * (se * nl)) <= se * nl

TrendAsSpecified(t, properties) ==
    LET nl == Cardinality({i \in DOMAIN properties : ListPriceIn(properties[i]) > 0})
        ne == Cardinality({i \in DOMAIN properties : EstimateIn(properties[i]) > 0})
        sl == SumSeq([i \in DOMAIN properties |-> ListPriceIn(properties[i])])
        se == SumSeq([i \in DOMAIN properties |-> Max(0, EstimateIn(properties[i]))])
    IN  IF nl > 0 /\ ne > 0 THEN IsClampedPercentage(t, sl, nl, se, ne) ELSE t = 0

\* C18: every snapshot of calculateMarketMetrics or of the synthesizer has
\* price_trend_30d within [-10, 10]; a computed one equals ((avgListPrice -
\* avgEstimate) / avgEstimate) * 100 clamped to [-10, 10] when there are list
\* prices and estimates (a raw 25% becomes 10, a raw -40% becomes -10), and 0
\* otherwise (price_trend_30d in hundredths)
C18_TrendClamped ==
    /\ applied.f \in {"calculateMarketMetrics", "generateRealisticMarketData"}
           => /\ applied.result.price_trend_30d >= -1000
              /\ applied.result.price_trend_30d <= 1000
    /\ applied.f = "calculateMarketMetrics"
           => /\ TrendAsSpecified(applied.result.price_trend_30d, applied.args)
              /\ applied.args = <<PropertyRecord(Line123Main, StrForSale, 500,
                                                 <<Estimate(400, TRUE)>>, 20, 30)>>
                    => applied.result.price_trend_30d = 1000
              /\ applied.args = <<PropertyRecord(Line456Oak, StrActive, 300,
                                                 <<Estimate(500, FALSE)>>, 0, 10)>>
                    => applied.result.price_trend_30d = -1000

\* calculateMarketMetrics applied to records whose list prices are on average
\* well above the estimates, the trend clamped to 10
C18_Witness ==
    /\ applied.f = "calculateMarketMetrics"
    /\ Len(applied.args) = 2
    /\ applied.args[1] = PropertyRecord(Line123Main, StrForSale, 500,
                                        <<Estimate(400, TRUE)>>, 20, 30)
    /\ applied.args[2] = PropertyRecord(Line9Elm, StrForSale, 420,
                                        <<Estimate(400, TRUE)>>, 10, 0)
    /\ applied.result.price_trend_30d = 1000

\* the tokens of length > 2 of an address after normalization, as a set
TokenSet(address) ==
    {w \in Range(split(matchNormalize(address), " ")) : Len(w) > 2}

\* C19: two addresses match exactly when, after normalization, their token
\* sets share at least two distinct tokens of length > 2; "123 Main St" matches
\* "123 Main Street" and does not match "456 Oak Ave"; a token repeated inside
\* one address does not count twice
C19_MatchIffTwoSharedTokens ==
    applied.f = "addressMatch"
        => /\ applied.result
                 <=> Cardinality(TokenSet(applied.args[1]) \cap TokenSet(applied.args[2])) >= 2
           /\ applied.args = <<Addr123MainSt, Addr123MainStreet>> => applied.result
           /\ applied.args = <<Addr123MainSt, Addr456OakAve>> => ~applied.result

\* the values at the five probed paths of a response body, in priority order
PathsOf(data) ==
    IF data.t # "body" THEN <<>>
    ELSE <<data.home_search_results, data.data_results, data.results,
           data.properties, data.data_properties>>

IsNonEmptyArray(v) == v.t = "arr" /\ v.v # <<>>

\* C20: extractPropertiesFromResponse returns the first non-empty array found
\* when probing the paths in priority order, and an empty sequence when none
\* holds a non-empty array: an empty array or a non-array value at a
\* higher-priority path does not hide a non-empty array at a lower one
C20_FirstNonEmptyArray ==
    applied.f = "extractPropertiesFromResponse"
        => \E paths \in {PathsOf(applied.args)} :
              IF \E k \in DOMAIN paths : IsNonEmptyArray(paths[k])
              THEN \E k \in DOMAIN paths :
                      /\ IsNonEmptyArray(paths[k])
                      /\ \A j \in 1 .. k - 1 : ~IsNonEmptyArray(paths[j])
                      /\ applied.result = paths[k].v
              ELSE applied.result = <<>>

\* the address line of a candidate; a null candidate has none
LineOf(p) == IF IsNullRecord(p) THEN <<>> ELSE p.line

\* the first candidate of the list that matches, in the exact pass and in the
\* normalized pass with the raw address lines
FirstOf(properties, matches(_)) ==
    IF \E k \in DOMAIN properties : matches(properties[k])
    THEN Some(properties[CHOOSE k \in DOMAIN properties :
                             /\ matches(properties[k])
                             /\ \A j \in 1 .. k - 1 : ~matches(properties[j])])
    ELSE None

\* C24: findBestAddressMatch returns the first candidate (in list order) that
\* matches the target in the exact pass; only if none does, the first
\* candidate that matches in the normalized pass, in which the re-normalized
\* target is compared against the candidates' raw address lines; it returns
\* none exactly when no candidate matches in either pass (including an empty
\* candidate list)
C24_TwoPassFirstInOrder ==
    applied.f = "findBestAddressMatch"
        => LET properties == applied.args[1]
               target == applied.args[2]
               exact(p) == addressMatch(target, LineOf(p))
               normalized(p) == addressMatch(normalizeAddress(target), LineOf(p))
           IN  applied.result =
                   Returned(IF FirstOf(properties, exact) # None
                            THEN FirstOf(properties, exact)
                            ELSE FirstOf(properties, normalized))

-----------------------------------------------------------------------------
(* Properties of generateMockListingInfo *)

\* C30: in every record of generateMockListingInfo, photos, description and
\* features are populated only when the selected status is for_sale; for every
\* other status (not_listed, sold, off_market) photos and features are empty
\* and description is absent
C30_DetailsOnlyForSale ==
    (applied.f = "generateMockListingInfo" /\ applied.result.status # StrForSale)
        => /\ applied.result.photos = <<>>
           /\ applied.result.features = <<>>
           /\ applied.result.description = None

\* the statuses of a listing record
StatusEnum ==
    {StrForSale, StrForRent, StrSold, StrPending, StrOffMarket, StrNotListed, StrUnknown}

\* the same, as the clients write them
ClientStatusEnum ==
    {"for_sale", "for_rent", "sold", "pending", "off_market", "not_listed", "unknown"}

\* C32: every listing record returned to a caller has a status of the enum
\* {for_sale, for_rent, sold, pending, off_market, not_listed, unknown}, a
\* price that is not negative and days_on_market >= 0, whatever status string
\* or numbers the upstream record carries; for extractListingInfo with
\* normalizeStatus and for the mapStatus of the Zillow and Realtor clients
C32_ListingRecordWellFormed ==
    /\ applied.f = "extractListingInfo"
           => /\ applied.result.status \in StatusEnum
              /\ applied.result.price >= 0
              /\ applied.result.days_on_market >= 0
    /\ applied.f = "mapStatus" => applied.result \in ClientStatusEnum

\* the residues that select the status
ResiduesOf(status) == {random100 \in Residues : statusOfResidue[random100] = status}

\* C31: generateMockListingInfo selects the status by cumulative-weight
\* sampling of the seed (character-code sum mod 100) / 100 over the weights
\* not_listed 0.70, for_sale 0.15, sold 0.10, off_market 0.05: of the 100 seed
\* residues exactly 70 map to not_listed, 15 to for_sale, 10 to sold and 5 to
\* off_market, and every residue selects some status
C31_StatusDistribution ==
    applied.f = "selectStatus"
        => /\ applied.result \in Range(MockStatuses)
           /\ Cardinality(ResiduesOf(StrNotListed)) = 70
           /\ Cardinality(ResiduesOf(StrForSale)) = 15
           /\ Cardinality(ResiduesOf(StrSold)) = 10
           /\ Cardinality(ResiduesOf(StrOffMarket)) = 5

-----------------------------------------------------------------------------
(* Properties of PropertyLookup.combineResults *)

\* for_sale > pending > sold > for_rent > not_for_sale
PriorityOrder == <<"for_sale", "pending", "sold", "for_rent", "not_for_sale">>

\* the fulfilled results, in source order
FulfilledOf(results) == SelectSeq(results, LAMBDA r : r.status = "fulfilled")

\* the listing status a fulfilled result reports (not_for_sale when it has none)
ReportedStatus(r) ==
    IF r.value.listing_status = None THEN "not_for_sale" ELSE r.value.listing_status[1]

\* the reported status that comes first in the priority order
HighestStatus(fulfilled) ==
    IF fulfilled = <<>> THEN "not_for_sale"
    ELSE PriorityOrder[CHOOSE k \in DOMAIN PriorityOrder :
             /\ \E i \in DOMAIN fulfilled : ReportedStatus(fulfilled[i]) = PriorityOrder[k]
             /\ \A j \in 1 .. k - 1 :
                    \A i \in DOMAIN fulfilled : ReportedStatus(fulfilled[i]) # PriorityOrder[j]]

\* the first value of the field that is not empty, in source order
FirstNonEmpty(fulfilled, field) ==
    IF \E i \in DOMAIN fulfilled : fulfilled[i].value[field] # None
    THEN fulfilled[CHOOSE i \in DOMAIN fulfilled :
                       /\ fulfilled[i].value[field] # None
                       /\ \A j \in 1 .. i - 1 : fulfilled[j].value[field] = None].value[field]
    ELSE None

\* the same results in every order
Reorderings(results) ==
    {[i \in DOMAIN results |-> results[q[i]]] : q \in Permutations(DOMAIN results)}

CombinedAsSpecified(results, fulfilled, combined) ==
    /\ combined.listing_status = HighestStatus(fulfilled)
    /\ combined.status = HighestStatus(fulfilled)
    /\ IF fulfilled = <<>> THEN combined.is_active_listing = FALSE
       ELSE \E i \in DOMAIN fulfilled :
               /\ ReportedStatus(fulfilled[i]) = combined.listing_status
               /\ fulfilled[i].value.is_active_listing = combined.is_active_listing
    /\ \A reordered \in Reorderings(results) :
          /\ combinedOf[reordered].listing_status = combined.listing_status
          /\ combinedOf[reordered].status = combined.status
          /\ combinedOf[reordered].is_active_listing = combined.is_active_listing
    /\ combined.found <=> \E i \in DOMAIN fulfilled : fulfilled[i].value.found
    /\ \A field \in {"price", "bedrooms", "bathrooms", "squareFeet"} :
          combined[field] = FirstNonEmpty(fulfilled, field)
    /\ combined = combinedOf[fulfilled]

\* C33: combineResults over the fulfilled source results: the combined
\* listing_status (and status) is the one of highest priority under for_sale >
\* pending > sold > for_rent > not_for_sale and is_active_listing is taken
\* from the source that supplied it, whatever the order of the sources; found
\* is true iff a fulfilled source reported found; each of price, bedrooms,
\* bathrooms and squareFeet is the first non-empty value in source order;
\* rejected results contribute nothing
C33_CombinedByPriority ==
    applied.f = "combineResults"
        => CombinedAsSpecified(applied.args, FulfilledOf(applied.args), applied.result)

\* a sold home before a home for sale, with a rejected result between them:
\* the status is for_sale and active, the price is the one of the first source
C33_Witness ==
    /\ applied.f = "combineResults"
    /\ Len(applied.args) = 3
    /\ applied.args[1].status = "fulfilled"
    /\ ReportedStatus(applied.args[1]) = "sold"
    /\ applied.args[2] = Rejected
    /\ applied.args[3].status = "fulfilled"
    /\ ReportedStatus(applied.args[3]) = "for_sale"
    /\ applied.result.listing_status = "for_sale"
    /\ applied.result.is_active_listing
    /\ applied.result.price = Some("$450")

-----------------------------------------------------------------------------
(* Properties of calculateMarketMetrics *)

\* the records of the list that are for sale or active
ActiveRecords(properties) ==
    {k \in DOMAIN properties :
        /\ ~IsNullRecord(properties[k])
        /\ properties[k].status \in {StrForSale, StrActive}}

\* C27: the snapshot's active_listings is the number of records of the list
\* whose status is for_sale or active, whether or not the record carries a
\* list price
C27_ActiveListingsCounted ==
    applied.f = "calculateMarketMetrics"
        => applied.result.active_listings = Cardinality(ActiveRecords(applied.args))

\* v tenths is n / d rounded to one decimal
IsRoundedToTenths(v, n, d) ==
    /\ 2 * (d * v - 10 * n) <= d
    /\ 2 * (10 * n - d * v) <= d

SnapshotFunctions ==
    { "calculateMarketMetrics", "calculateMarketMetrics catch",
      "generateRealisticMarketData", "generateRealisticMarketData catch" }

\* C29: every snapshot returned by calculateMarketMetrics (computed or the
\* default after a failure) and by generateRealisticMarketData (computed or the
\* default) has market_velocity = days_on_market / 7 rounded to one decimal,
\* with the days_on_market of the same snapshot (market_velocity in tenths)
C29_VelocityFromDays ==
    applied.f \in SnapshotFunctions
        => IsRoundedToTenths(applied.result.market_velocity,
                             applied.result.days_on_market, 7)

\* a computed snapshot whose 30 days are 4.3 weeks
C29_Witness ==
    /\ applied.f = "calculateMarketMetrics"
    /\ applied.result.days_on_market = 30
    /\ applied.result.market_velocity = 43

\* C37: every snapshot of calculateMarketMetrics or of
\* generateRealisticMarketData has median_price, days_on_market,
\* inventory_count, active_listings and avg_price_per_sqft all >= 0, and
\* active_listings <= inventory_count
C37_CountsNotNegative ==
    applied.f \in SnapshotFunctions
        => /\ applied.result.median_price >= 0
           /\ applied.result.days_on_market >= 0
           /\ applied.result.inventory_count >= 0
           /\ applied.result.active_listings >= 0
           /\ applied.result.avg_price_per_sqft >= 0
           /\ applied.result.active_listings <= applied.result.inventory_count

\* the processing of the record raises an error
RaisesError(p) == IsNullRecord(p) \/ estimatesThrow(p.current_estimates)

\* the list without its k-th record
Without(properties, k) ==
    [i \in 1 .. Len(properties) - 1 |-> IF i < k THEN properties[i] ELSE properties[i + 1]]

SameStatistics(a, b) ==
    /\ a.median_price = b.median_price
    /\ a.days_on_market = b.days_on_market
    /\ a.price_trend_30d = b.price_trend_30d
    /\ a.active_listings = b.active_listings

\* C28: one malformed record does not abort the aggregation: a record whose
\* processing raises an error (a null record, say) contributes nothing to
\* prices, estimates, square footage, days on market or the for-sale count: the
\* snapshot's median_price, days_on_market, price_trend_30d and
\* active_listings are those of the list with that record removed
C28_MalformedRecordSkipped ==
    applied.f = "calculateMarketMetrics"
        => \A k \in DOMAIN applied.args :
              RaisesError(applied.args[k])
                  => SameStatistics(applied.result, metricsOf[Without(applied.args, k)])

-----------------------------------------------------------------------------
(* Properties of POST /bulk-listing-check of routes.js *)

\* C26: POST /bulk-listing-check of routes.js and main.js respects the bulk
\* rate limit: the upstream search for one address does not start while the
\* upstream search for another address of the same batch is still in flight
C26_OneSearchInFlight ==
    (endpoint = "routes /bulk-listing-check" /\ bulk.phase # "idle")
        => Cardinality(searchesInFlight(bulk.items)) <= 1

-----------------------------------------------------------------------------
(* Properties of two requests served at once *)

\* the upserts of the two calls that the store committed, in order
CommittedWrites == SelectSeq(serving.writes, LAMBDA w : w.committed)

LastCommitted == CommittedWrites[Len(CommittedWrites)]

\* the row of market_data_cache is the snapshot, field for field, and expires
\* 24 hours after the write
IsSnapshotRow(row, data, t) ==
    /\ \A field \in DOMAIN data : row[field] = data[field]
    /\ DOMAIN row = DOMAIN data \cup {"cached_at", "expires_at"}
    /\ row.cached_at = t
    /\ row.expires_at = t + 24

\* the row of listing_cache is the listing written, with its own time to live
IsListingRow(row, cacheKey, w) ==
    row = [ cache_key |-> cacheKey, listing_data |-> w.data, cached_at |-> w.at,
            expires_at |-> w.at + w.ttl ]

\* C25: cache writes are last-writer-wins whole-entry replacement: when two
\* calls for the same key both miss and both write, the row afterwards equals
\* the snapshot of the write committed last, field for field, with expires_at
\* 24 hours after that write (for a listing: after its time to live); writing
\* the same snapshot twice leaves the table as writing it once
C25_LastWriterWins ==
    (endpoint \in PairEndpoints /\ serving.phase # "idle" /\ Len(CommittedWrites) > 0)
        => \E w \in {LastCommitted} :
              IF endpoint = "two /market-data"
              THEN /\ marketCache[serving.zipCode] # None
                   /\ IsSnapshotRow(marketCache[serving.zipCode][1], w.data, w.at)
                   /\ \A z \in DOMAIN marketCache \ {serving.zipCode} :
                          marketCache[z] = None
                   /\ cacheMarketData(marketCache, w.data, w.at, TRUE) = marketCache
              ELSE \E cacheKey \in {listingCacheKey(serving.address, serving.zipCode)} :
                   /\ listingCache[cacheKey] # None
                   /\ IsListingRow(listingCache[cacheKey][1], cacheKey, w)
                   /\ cacheListingStatus(listingCache, cacheKey, w.data, w.ttl, w.at, TRUE)
                          = listingCache

\* both calls missed and both wrote, different snapshots at different hours,
\* and the row is the one of the second write
C25_Witness ==
    /\ endpoint = "two /market-data"
    /\ serving.phase = "answered"
    /\ Len(CommittedWrites) = 2
    /\ CommittedWrites[1].data # CommittedWrites[2].data
    /\ CommittedWrites[1].at < CommittedWrites[2].at
    /\ marketCache[serving.zipCode] # None
    /\ IsSnapshotRow(marketCache[serving.zipCode][1], CommittedWrites[2].data,
                     CommittedWrites[2].at)

-----------------------------------------------------------------------------
(* Properties of GET /property-insights *)

\* checkListingStatus run on its own on the tables t at hour at, with the
\* answers that call c got: the tables it leaves and what it returns
ListingAlone(t, address, zipCode, c, at) ==
    IF ~hasKey THEN [tables |-> t, result |-> Some(Some(generateMockListingInfo(address)))]
    ELSE \* a call that is cut short has no result
         IF getCachedListingStatus(t.listing, listingCacheKey(address, zipCode), at, c.readOk)
                # None
         THEN [tables |-> t,
               result |-> Some(getCachedListingStatus(t.listing,
                                   listingCacheKey(address, zipCode), at, c.readOk))]
         ELSE IF c.answers = <<>> THEN [tables |-> t, result |-> None]
         ELSE IF listingOutcome[<<address, zipCode, c.answers[1]>>].write = None
         THEN [tables |-> t,
               result |-> Some(listingOutcome[<<address, zipCode, c.answers[1]>>].data)]
         ELSE [tables |-> [t EXCEPT !.listing =
                              cacheListingStatus(t.listing, listingCacheKey(address, zipCode),
                                  listingOutcome[<<address, zipCode, c.answers[1]>>].write[1],
                                  listingOutcome[<<address, zipCode, c.answers[1]>>].ttl,
                                  at, c.writeOk)],
               result |-> Some(listingOutcome[<<address, zipCode, c.answers[1]>>].data)]

\* getMarketData run on its own on the tables t, with the answers that call c got
MarketAlone(t, zipCode, c, at) ==
    IF /\ getCachedMarketData(t.market, zipCode, at, c.readOk) # None
       /\ getCachedMarketData(t.market, zipCode, at, c.readOk)[1].expires_at > at
    THEN [tables |-> t,
          result |-> Some(Some(marketDataOfRow(
                         getCachedMarketData(t.market, zipCode, at, c.readOk)[1])))]
    ELSE IF c.answers = <<>> THEN [tables |-> t, result |-> None]
    ELSE [tables |-> [t EXCEPT !.market =
                         cacheMarketData(t.market,
                             marketOutcome[<<hasKey, zipCode, c.answers[1], c.answers[2]>>].data[1],
                             at, c.writeOk)],
          result |-> Some(marketOutcome[<<hasKey, zipCode, c.answers[1], c.answers[2]>>].data)]

\* the two calls one after the other, the listing call first or the market
\* call first: the results and the tables left
ListingThenMarket(t0, c) ==
    \E a \in {ListingAlone(t0, c.address, c.zipCode, c.l, c.at)} :
       \E b \in {MarketAlone(a.tables, c.zipCode, c.m, c.at)} :
          /\ c.l.result = a.result
          /\ c.m.result = b.result
          /\ [market |-> marketCache, listing |-> listingCache] = b.tables

MarketThenListing(t0, c) ==
    \E a \in {MarketAlone(t0, c.zipCode, c.m, c.at)} :
       \E b \in {ListingAlone(a.tables, c.address, c.zipCode, c.l, c.at)} :
          /\ c.l.result = b.result
          /\ c.m.result = a.result
          /\ [market |-> marketCache, listing |-> listingCache] = b.tables

\* C21: in GET /property-insights the two calls are independent: every
\* interleaving of their cache and upstream steps yields the same pair of
\* results and the same final cache contents as running the two one after the
\* other, in either order
C21_CallsAreIndependent ==
    serving.phase = "answered"
        => /\ ListingThenMarket([market |-> serving.market0, listing |-> serving.listing0],
                                serving)
           /\ MarketThenListing([market |-> serving.market0, listing |-> serving.listing0],
                                serving)

\* a request answered after both calls missed and each wrote its table
C21_Witness ==
    /\ serving.phase = "answered"
    /\ serving.l.answers # <<>>
    /\ serving.m.answers # <<>>
    /\ serving.l.writeOk
    /\ serving.m.writeOk
    /\ listingCache # serving.listing0
    /\ marketCache # serving.market0

-----------------------------------------------------------------------------
(* Properties of the handlers with two sources *)

IsSourcesCall(o) == o.op \in {"routes /listing-status", "main /listing-status"}

\* C22: Zillow is the primary source and Realtor the secondary: Realtor's
\* searchByAddress is invoked only after Zillow's has completed without data
\* (no result or any error), and whenever Zillow returns a record Realtor is
\* never called and the response carries Zillow's record
C22_ZillowBeforeRealtor ==
    IsSourcesCall(last)
        => /\ \A i \in DOMAIN last.http :
                  last.http[i].strategy = "realtor"
                      => /\ i = 2
                         /\ last.http[1].strategy = "zillow"
                         /\ last.http[1].answer \in {"nodata", "error"}
           /\ (last.http # <<>> /\ last.http[1].strategy = "zillow"
                              /\ last.http[1].answer = "data")
                  => /\ Len(last.http) = 1
                     /\ last.result = Some(zillowListing(last.address))
           /\ last.http # <<>> => last.http[1].strategy = "zillow"
           /\ last.read # "ok" \/ last.held = None => last.http # <<>>

\* Zillow failed and Realtor, asked after it, had the record
C22_Witness ==
    /\ IsSourcesCall(last)
    /\ Len(last.http) = 2
    /\ last.http[1].answer = "error"
    /\ last.http[2].answer = "data"
    /\ last.result = Some(realtorListing(last.address))

-----------------------------------------------------------------------------
(* Properties of the property cache of sellers *)

MostRecentRows(sellerIntentId) ==
    {r \in propertyCache :
        /\ r.seller_intent_id = sellerIntentId
        /\ \A q \in propertyCache :
               q.seller_intent_id = sellerIntentId => q.last_updated <= r.last_updated}

-----------------------------------------------------------------------------
(* Properties of refreshStaleData *)

\* the run queried each selected seller exactly once
QueriedEachOnce(run) ==
    /\ {run.queried[i] : i \in DOMAIN run.queried} = run.selected
    /\ \A i, j \in DOMAIN run.queried : run.queried[i] = run.queried[j] => i = j

\* C39: refreshStaleData(h) re-queries each seller whose cache row is older
\* than h hours exactly once, one at a time with a pause between them; when
\* the run completes every selected row has been refreshed, so that a
\* refreshStaleData(h) following immediately selects none of them again
C39_RefreshCompletes ==
    endpoint = "refresh" =>
        /\ serving.phase = "refreshed" => QueriedEachOnce(serving)
        /\ (serving.phase = "refreshed" /\ serving.at = now)
               => \A r \in propertyCache :
                      r.seller_intent_id \in serving.selected
                          => ~isStale(r, serving.hours, now)
        /\ (serving.phase \in {"refreshing", "refreshed"} /\ serving.previous # None)
               => serving.selected \cap serving.previous[1] = {}

-----------------------------------------------------------------------------
(* Time *)

\* the hour turns between requests and, where two requests are served at once,
\* between their awaits; a run of refreshStaleData takes seconds for each
\* seller, and the hour does not turn within it
Tick ==
    /\ now + TickHours <= MaxTime
    /\ serving.phase = "running" => endpoint \in PairEndpoints
    /\ serving.phase # "refreshing"
    /\ now' = now + TickHours
    /\ UNCHANGED <<endpoint, hasKey, hasPool, marketCache, listingCache, routesCache, last, bulk, applied, serving, propertyCache>>

\* the state after the start of the server, before any request; the requests of
\* a behaviour all go to one endpoint (the endpoints keep their entries under
\* different keys or in different tables)
InitOf(e, keys, pools) ==
    /\ endpoint = e
    /\ hasKey \in keys
    /\ hasPool \in pools
    /\ now = 0
    /\ marketCache = [z \in Zips |-> None]
    /\ listingCache = [k \in ListingKeys |-> None]
    /\ routesCache = [k \in RoutesKeys |-> None]
    /\ last = NoObservation
    /\ bulk = NoBulk
    /\ applied = NoApplication
    /\ serving = NoCalls
    /\ propertyCache = {}

InitMarket == InitOf("/market-data", BOOLEAN, {TRUE})

NextMarket ==
    \/ \E z \in Zips, readOk \in BOOLEAN : getMarketData(z, readOk)
    \/ Tick

SpecMarket == InitMarket /\ [][NextMarket]_vars

InitListing == InitOf("/listing-status", BOOLEAN, {TRUE})

NextListing ==
    \/ \E a \in Addresses, z \in ListingZips, readOk \in BOOLEAN :
            checkListingStatus(a, z, readOk)
    \/ Tick

SpecListing == InitListing /\ [][NextListing]_vars

InitRoutes ==
    \/ InitOf("routes /listing-status", {FALSE}, BOOLEAN)
    \/ InitOf("routes /market-data", {FALSE}, BOOLEAN)

NextRoutes ==
    \/ \E a \in Addresses, z \in ListingZips, readOk \in BOOLEAN :
            routesListingStatus(a, z, readOk)
    \/ \E z \in Zips, readOk \in BOOLEAN : routesMarketData(z, readOk)
    \/ Tick

SpecRoutes == InitRoutes /\ [][NextRoutes]_vars

InitBulk == InitOf("/bulk-listing-check", BOOLEAN, {TRUE})

InitRoutesBulk == InitOf("routes /bulk-listing-check", {FALSE}, BOOLEAN)

BulkItems == 1 .. 2

NextBulk ==
    \/ \E properties \in BulkBodies : bulkReceive(properties)
    \/ bulkLoop
    \/ \E readOk \in BOOLEAN : bulkCallReturn(readOk)
    \/ bulkTimer
    \/ bulkResume
    \/ \E properties \in RoutesBulkBodies : routesBulkReceive(properties)
    \/ \E k \in BulkItems, readOk \in BOOLEAN : routesBulkLookup(k, readOk)
    \/ \E k \in BulkItems, za \in ClientAnswers : routesBulkZillow(k, za)
    \/ \E k \in BulkItems, ra \in ClientAnswers : routesBulkRealtor(k, ra)
    \/ routesBulkRespond

SpecBulk == (InitBulk \/ InitRoutesBulk) /\ [][NextBulk]_vars

InitFunctions == \E f \in FunctionNames : InitOf(f, {FALSE}, {FALSE})

NextFunctions ==
    \/ \E zipCode \in SynthesisZips : applyGenerateRealisticMarketData(zipCode)
    \/ \E address \in MatchAddresses : applyGenerateMockListingInfo(address)
    \/ \E numbers \in MedianInputs : applyCalculateMedian(numbers)
    \/ \E properties \in MetricsInputs : applyCalculateMarketMetrics(properties)
    \/ \E address1 \in MatchAddresses, address2 \in MatchAddresses :
            applyAddressMatch(address1, address2)
    \/ \E data \in ExtractInputs : applyExtractPropertiesFromResponse(data)
    \/ \E properties \in CandidateLists, targetAddress \in MatchTargets :
            applyFindBestAddressMatch(properties, targetAddress)
    \/ \E length \in NotIterableLengths : applyCalculateMarketMetricsCatch(length)
    \/ \E random100 \in Residues : applySelectStatus(random100)
    \/ \E r1 \in KeyRequests, r2 \in KeyRequests : applyCacheKeys(r1, r2)
    \/ \E results \in CombineInputs : applyCombineResults(results)
    \/ \E property \in UpstreamRecords : applyExtractListingInfo(property)
    \/ \E status \in ZillowStatuses : applyMapStatus("zillow", status)
    \/ \E status \in RealtorStatuses : applyMapStatus("realtor", status)
    \/ \E zipCode \in SynthesisZips : applyGenerateRealisticMarketDataCatch(zipCode)
    \/ Tick

SpecFunctions == InitFunctions /\ [][NextFunctions]_vars

\* the /listing-status handlers that use the Zillow and Realtor clients
InitSources ==
    \/ InitOf("routes /listing-status", {FALSE}, BOOLEAN)
    \/ InitOf("main /listing-status", {FALSE}, {FALSE})

NextSources ==
    \/ \E a \in Addresses, z \in ListingZips, readOk \in BOOLEAN :
            routesListingStatus(a, z, readOk)
    \/ \E a \in Addresses, z \in ListingZips : mainListingStatus(a, z)
    \/ Tick

SpecSources == InitSources /\ [][NextSources]_vars

InitSellers == InitOf("seller cache", {FALSE}, {TRUE})

NextSellers ==
    \/ \E id \in Sellers, addressInfo \in {None} \cup {Some(a) : a \in SellerAddresses},
          propertyData \in {None} \cup {Some(d) : d \in FoundProperties},
          storeOk \in BOOLEAN :
            queryPropertyForSeller(id, addressInfo, propertyData, storeOk)
    \/ \E id \in Sellers, storeOk \in BOOLEAN : getCachedPropertyData(id, storeOk)

SpecSellers == InitSellers /\ [][NextSellers]_vars

InitRefresh == InitOf("refresh", {FALSE}, {TRUE})

NextRefresh ==
    \/ \E id \in Sellers, a \in SellerAddresses, d \in FoundProperties :
            queryPropertyForSeller(id, Some(a), Some(d), TRUE)
    \/ \E hoursOld \in HoursOld, storeOk \in BOOLEAN : refreshSelect(hoursOld, storeOk)
    \/ \E addressInfo \in {None} \cup {Some(a) : a \in SellerAddresses},
          propertyData \in {None} \cup {Some(d) : d \in FoundProperties},
          storeOk \in BOOLEAN :
            refreshQuery(addressInfo, propertyData, storeOk)
    \/ refreshPause
    \/ Tick

SpecRefresh == InitRefresh /\ [][NextRefresh]_vars

InitInsights == InitOf("/property-insights", BOOLEAN, {TRUE})

NextInsights ==
    \/ \E address \in InsightsAddresses, zipCode \in ListingZips :
            insightsReceive(address, zipCode)
    \/ \E readOk \in BOOLEAN : insightsListingLookup(readOk)
    \/ \E ra \in InsightsListingAnswers : insightsListingFetch(ra)
    \/ \E writeOk \in BOOLEAN : insightsListingWrite(writeOk)
    \/ \E readOk \in BOOLEAN : insightsMarketLookup(readOk)
    \/ \E ra \in FirstResponses(hasKey) \cap InsightsMarketAnswers :
          \E rb \in SecondResponses(ra) \cap InsightsMarketAnswers :
            insightsMarketFetch(ra, rb)
    \/ \E writeOk \in BOOLEAN : insightsMarketWrite(writeOk)
    \/ insightsRespond
    \/ Tick

SpecInsights == InitInsights /\ [][NextInsights]_vars

InitPairs ==
    \/ InitOf("two /market-data", BOOLEAN, {TRUE})
    \/ InitOf("two /listing-status", {TRUE}, {TRUE})

NextPairs ==
    \/ \E address \in InsightsAddresses, zipCode \in ListingZips :
            pairReceive(address, zipCode)
    \/ \E i \in PairCalls, readOk \in BOOLEAN : pairMarketLookup(i, readOk)
    \/ \E i \in PairCalls :
          \E ra \in FirstResponses(hasKey) \cap PairMarketAnswers :
             \E rb \in SecondResponses(ra) \cap PairMarketAnswers :
                pairMarketFetch(i, ra, rb)
    \/ \E i \in PairCalls, writeOk \in BOOLEAN : pairMarketWrite(i, writeOk)
    \/ \E i \in PairCalls, readOk \in BOOLEAN : pairListingLookup(i, readOk)
    \/ \E i \in PairCalls, ra \in PairListingAnswers : pairListingFetch(i, ra)
    \/ \E i \in PairCalls, writeOk \in BOOLEAN : pairListingWrite(i, writeOk)
    \/ pairRespond
    \/ Tick

SpecPairs == InitPairs /\ [][NextPairs]_vars

\* the three endpoints that look one thing up, in either server
InitLookups == InitMarket \/ InitListing \/ InitRoutes

NextLookups ==
    \/ \E z \in Zips, readOk \in BOOLEAN : getMarketData(z, readOk)
    \/ \E a \in Addresses, z \in ListingZips, readOk \in BOOLEAN :
            checkListingStatus(a, z, readOk)
    \/ \E a \in Addresses, z \in ListingZips, readOk \in BOOLEAN :
            routesListingStatus(a, z, readOk)
    \/ \E z \in Zips, readOk \in BOOLEAN : routesMarketData(z, readOk)
    \/ Tick

SpecLookups == InitLookups /\ [][NextLookups]_vars

Init ==
    \/ InitLookups \/ InitBulk \/ InitRoutesBulk \/ InitFunctions \/ InitInsights
    \/ InitSources \/ InitSellers \/ InitPairs \/ InitRefresh

Next ==
    \/ NextLookups \/ NextBulk \/ NextFunctions \/ NextInsights \/ NextSources
    \/ NextSellers \/ NextPairs \/ NextRefresh

Spec == Init /\ [][Next]_vars

-----------------------------------------------------------------------------
(* The responses of server.ts *)

\* GET /market-data: 200 with the data, 404 for null
marketDataRoute(result) == [code |-> IF result # None THEN 200 ELSE 404]

\* GET /listing-status: 200 with the record, or with status not_listed for null
listingStatusRoute(result) ==
    [code |-> 200, status |-> IF result # None THEN result[1].status ELSE StrNotListed]

-----------------------------------------------------------------------------
(* Properties of getMarketData *)

IsMarketCall(o) == o.op = "getMarketData"

\* the call was answered from the cache row it found
ServedFromRow(o) ==
    /\ o.held # None
    /\ o.result = Some(marketDataOfRow(o.held[1]))
    /\ o.http = <<>>
    /\ o.synth = 0

\* C1 as stated: whenever the table holds an unexpired entry for the zip,
\* getMarketData returns that entry's values, issues no upstream request and
\* synthesizes nothing, with or without credentials.
C1_HeldEntryIsReturned ==
    (IsMarketCall(last) /\ last.held # None) => ServedFromRow(last)

\* C1, amended: whenever the cache lookup succeeds and the table holds an
\* unexpired entry for the zip, getMarketData returns that entry's values,
\* issues no upstream request and synthesizes nothing, with or without
\* credentials.
C1_FoundEntryIsReturned ==
    (IsMarketCall(last) /\ last.read = "ok" /\ last.held # None) => ServedFromRow(last)

\* a call with credentials answered, at a later hour, from the entry an earlier
\* call wrote
C1_Witness ==
    /\ IsMarketCall(last) /\ hasKey /\ last.read = "ok"
    /\ last.held # None /\ last.held[1].cached_at < last.at
    /\ ServedFromRow(last)

\* the step is a getMarketData call that follows a getMarketData call for the
\* same zip
SuccessiveMarketCalls ==
    /\ now' = now
    /\ IsMarketCall(last) /\ IsMarketCall(last')
    /\ last'.zip = last.zip

\* the earlier call left its result in the table: it was answered from the
\* table, or its write was committed
LeftInCache(o) == o.write = None \/ o.committed

\* the hour at which the entry the earlier call left expires
EntryExpiry(o) ==
    IF o.write = None THEN o.held[1].expires_at ELSE o.at + MarketTtlHours

\* C2 as stated: two successive getMarketData calls for a zip less than 24 hours
\* apart return identical snapshots, and at most one of them goes upstream.
C2_SuccessiveCallsAgree ==
    [][ (SuccessiveMarketCalls /\ last'.at - last.at < MarketTtlHours)
            => /\ last'.result = last.result
               /\ (last.http = <<>> \/ last'.http = <<>>) ]_vars

\* C2, amended: if a getMarketData call leaves its result in the cache (it was
\* answered from the cache, or its cache write was committed) and the next call
\* for the same zip is made before that entry expires and its cache lookup
\* succeeds, the second call returns the identical snapshot, issues no upstream
\* request and synthesizes nothing.
C2_CachedCallsAgree ==
    [][ (SuccessiveMarketCalls /\ LeftInCache(last) /\ now < EntryExpiry(last)
         /\ last'.read = "ok")
            => /\ last'.result = last.result
               /\ last'.http = <<>>
               /\ last'.synth = 0 ]_vars

\* a call answered, at a later hour, with the computed snapshot that an earlier
\* call fetched upstream and wrote
C2_Witness ==
    /\ IsMarketCall(last) /\ last.write = None /\ last.read = "ok"
    /\ last.held # None /\ last.held[1].cached_at < last.at
    /\ last.result = Some(calculateMarketMetrics(last.zip, RecordsA))

\* C3: when strategy A (search by postal_code) answers with a successful but
\* empty result set, A is attempted exactly once, then B (search by location)
\* is attempted, and if B has records the snapshot is computed from B's records.
C3_EmptyFallsThrough ==
    (IsMarketCall(last) /\ last.http # <<>> /\ last.http[1].answer = "empty")
        => /\ Len(last.http) = 2
           /\ last.http[1].strategy = Strategies[1]
           /\ last.http[2].strategy = Strategies[2]
           /\ (last.http[2].answer = "records"
                   => last.result = Some(calculateMarketMetrics(last.zip, RecordsB)))

-----------------------------------------------------------------------------
(* Properties of the upstream error handling *)

IsListingCall(o) == o.op = "checkListingStatus"

\* the answer to the i-th upstream request of the call, if it was made
upstreamAnswer(o, i) == IF Len(o.http) >= i THEN o.http[i].answer ELSE Unasked

\* what the synthesizer gives for the ZIP or the address of the call
SynthesizedFor(o) ==
    IF IsMarketCall(o) THEN generateRealisticMarketData(o.zip)
    ELSE generateMockListingInfo(o.address)

\* C4: when the first upstream request is answered with HTTP 429, no further
\* strategy is attempted and the result is the synthesizer's output for the
\* requested ZIP (getMarketData) or address (checkListingStatus).
C4_QuotaShortCircuit ==
    ((IsMarketCall(last) \/ IsListingCall(last)) /\ upstreamAnswer(last, 1) = "http429")
        => /\ Len(last.http) = 1
           /\ last.synth = 1
           /\ last.result = Some(SynthesizedFor(last))

\* checkListingStatus answered 429 returns the mock record of the address, a
\* listing for sale
C4_Witness ==
    /\ IsListingCall(last) /\ upstreamAnswer(last, 1) = "http429"
    /\ last.result = Some(generateMockListingInfo(Addr77PineWay))
    /\ last.result[1].status = StrForSale

\* the upstream request of the call was answered without an error and with a
\* status below 400
UpstreamSucceeded(o) ==
    /\ o.http # <<>>
    /\ Response(o.http[1].answer, Strategies[1]).kind = "http"
    /\ Response(o.http[1].answer, Strategies[1]).status < 400

\* the candidates the upstream answer of the call carries
CandidatesOf(o) ==
    extractPropertiesFromResponse(Response(o.http[1].answer, Strategies[1]).data)

\* no candidate matches the address, as written or normalized
NoCandidateMatches(properties, address) ==
    \A i \in DOMAIN properties :
        \/ IsNullRecord(properties[i])
        \/ /\ ~addressMatch(address, properties[i].line)
           /\ ~addressMatch(normalizeAddress(address), normalizeAddress(properties[i].line))

\* C5: when the upstream call of checkListingStatus succeeds (no error, status
\* below 400) and no candidate matches the address, the call returns null
\* (rendered as status not_listed), the synthesizer is not invoked, and a
\* not-found marker is written to the cache with a TTL shorter than that of a
\* genuine match.
C5_NoMatchIsNotListed ==
    (IsListingCall(last) /\ UpstreamSucceeded(last)
     /\ NoCandidateMatches(CandidatesOf(last), last.address))
        => /\ last.result = None
           /\ listingStatusRoute(last.result).status = StrNotListed
           /\ last.synth = 0
           /\ last.write = Some(None)
           /\ last.ttl = NotFoundTtlHours
           /\ NotFoundTtlHours < ListingTtlHours

\* C6: with credentials and a cache miss, an upstream call of checkListingStatus
\* that fails with a network error, a timeout or a status of 500 or more ends
\* in a synthesized record, never in the not-listed result.
C6_FailureSynthesizes ==
    (IsListingCall(last) /\ hasKey
     /\ upstreamAnswer(last, 1) \in {"neterr", "timeout", "http500"})
        => /\ last.result = Some(generateMockListingInfo(last.address))
           /\ last.synth = 1

\* C7: when the upstream answers with a status in 400..499 other than 429, no
\* further strategy is attempted and getMarketData as well as
\* checkListingStatus return synthesized data for the ZIP or address.
C7_ClientErrorSynthesizes ==
    ((IsMarketCall(last) \/ IsListingCall(last))
     /\ \E i \in DOMAIN last.http : last.http[i].answer = "http404")
        => /\ last.http[Len(last.http)].answer = "http404"
           /\ last.result = Some(SynthesizedFor(last))

\* the TTL of genuine upstream-derived data of the kind the call caches
GenuineTtl(o) == IF IsMarketCall(o) THEN MarketTtlHours ELSE ListingTtlHours

\* C8: every cache write of a synthesized result, market snapshot or listing
\* record, uses a TTL strictly shorter than the TTL of genuine data of the same
\* kind.
C8_SyntheticTtlShorter ==
    ((IsMarketCall(last) \/ IsListingCall(last)) /\ last.synth > 0 /\ last.write # None)
        => last.ttl < GenuineTtl(last)

-----------------------------------------------------------------------------
(* Properties of the cache failures *)

\* a cache read or a cache write of the call failed, or no database is configured
CacheFailed(o) ==
    /\ o.op # "none"
    /\ \/ o.read = "error"
       \/ o.write # None /\ ~o.committed
       \/ o.op \in {"routes /listing-status", "routes /market-data"} /\ ~hasPool

\* the call went on past the cache lookup as on a miss
TookMissPath(o) ==
    /\ IsMarketCall(o) => (hasKey => o.http # <<>>) /\ o.synth + Len(o.http) > 0
    /\ IsListingCall(o) => o.http # <<>>
    /\ o.op \in {"routes /listing-status", "routes /market-data"} => o.http # <<>>

\* what the handler returns on a plain cache miss, given the answers of the
\* upstream requests of the call
ResultOnMiss(o) ==
    CASE IsMarketCall(o) ->
            marketOutcome[<<hasKey, o.zip, upstreamAnswer(o, 1), upstreamAnswer(o, 2)>>].data
      [] IsListingCall(o) ->
            listingOutcome[<<o.address, o.zip, upstreamAnswer(o, 1)>>].data
      [] o.op = "routes /listing-status" ->
            listingSources(o.address, upstreamAnswer(o, 1), upstreamAnswer(o, 2)).data
      [] o.op = "routes /market-data" ->
            marketSources(o.zip, upstreamAnswer(o, 1), upstreamAnswer(o, 2)).data

\* the status code of the response, for the handlers of server.ts
ResponseCode(o) ==
    IF IsMarketCall(o) THEN marketDataRoute(o.result).code
    ELSE listingStatusRoute(o.result).code

\* C9: if a cache read or a cache write fails (store unreachable, query error,
\* no database configured), getMarketData, checkListingStatus and the handlers
\* of routes.js complete with the result of a plain cache miss, and the
\* response is no error.
C9_CacheFailureIsMiss ==
    CacheFailed(last)
        => /\ TookMissPath(last)
           /\ last.result = ResultOnMiss(last)
           /\ (IsMarketCall(last) => ResponseCode(last) = 200)
           /\ (IsListingCall(last) => ResponseCode(last) = 200)

\* checkListingStatus, with the store failing on the lookup and on the write
\* while the table holds an unexpired row, returns the listing found upstream
C9_Witness ==
    /\ IsListingCall(last) /\ last.read = "error" /\ last.held # None
    /\ last.write # None /\ ~last.committed
    /\ last.result = Some(extractListingInfo(RecordsA[1], Addr123MainSt))

\* C10: for every cache state, credential configuration and upstream behaviour,
\* getMarketData returns a snapshot (never null) whose zip_code is the requested
\* zip, so that GET /market-data answers 200.
C10_AlwaysASnapshot ==
    IsMarketCall(last)
        => /\ last.result # None
           /\ last.result[1].zip_code = last.zip
           /\ marketDataRoute(last.result).code = 200

\* getMarketData with credentials, the store failing on the lookup and on the
\* write, and both strategies failing
C10_Witness ==
    /\ IsMarketCall(last) /\ hasKey /\ last.zip = Zip10001
    /\ last.read = "error" /\ ~last.committed
    /\ upstreamAnswer(last, 1) = "http500" /\ upstreamAnswer(last, 2) = "timeout"
    /\ last.result = Some(generateRealisticMarketData(Zip10001))

-----------------------------------------------------------------------------
(* Properties of the order of the steps of a request *)

\* C11: checkListingStatus consults the cache first and returns an unexpired
\* entry for the key without an upstream request or a synthesis; without
\* credentials the synthesizer is reached only after the cache lookup, and its
\* result is written to the cache before it is returned.
C11_CacheThenUpstreamThenSynthesis ==
    IsListingCall(last)
        => /\ last.read # "none"
           /\ (last.held # None
                  => /\ last.result = last.held[1].listing_data
                     /\ last.http = <<>>
                     /\ last.synth = 0)
           /\ ((~hasKey /\ last.synth = 1)
                  => last.write # None /\ last.write = last.result)

-----------------------------------------------------------------------------
(* Properties of GET /market-data of routes.js *)

IsRoutesMarketCall(o) == o.op = "routes /market-data"

\* the call asked the sources and none of them returned data
BothSourcesFailed(o) ==
    /\ o.http # <<>>
    /\ \A i \in DOMAIN o.http : o.http[i].answer # "data"

\* C38: in GET /market-data of routes.js a merged result is written to the
\* cache only when at least one source (Zillow or Realtor) returned data; when
\* both fail, nothing is cached, so that the next request for the ZIP asks
\* the sources again instead of being served the all-null result for 24 hours
C38_NothingCachedWhenBothFail ==
    /\ (IsRoutesMarketCall(last) /\ BothSourcesFailed(last))
           => last.write = None /\ ~last.committed
    /\ (IsRoutesMarketCall(last) /\ last.http = <<>> /\ last.result # None)
           => last.result[1].sources.zillow \/ last.result[1].sources.realtor

-----------------------------------------------------------------------------
(* Properties of the address matcher *)

\* C36: the address matcher is reflexive and symmetric: for every non-empty
\* address a, findBestAddressMatch on a candidate whose address line is
\* exactly a returns that candidate, and addressMatch(a, b) = addressMatch(b, a)
\* for all a, b
C36_ReflexiveAndSymmetric ==
    /\ (applied.f = "findBestAddressMatch" /\ applied.args[2] # <<>>
        /\ applied.args[1] = <<Candidate(applied.args[2])>>)
           => applied.result = Returned(Some(Candidate(applied.args[2])))
    /\ applied.f = "addressMatch"
           => applied.result = matchOf[<<applied.args[2], applied.args[1]>>]

-----------------------------------------------------------------------------
(* Properties of the cache keys *)

\* C35: listing cache keys are injective: two requests with different
\* (address, zipCode) pairs never map to the same key, for the key
\* listing_<zip>_<address with whitespace runs replaced by '_'> of
\* marketDataService and for the lower-cased key listing:<address>:<zip> of
\* routes.js
C35_KeysInjective ==
    (applied.f = "cache keys" /\ applied.args[1] # applied.args[2])
        => /\ applied.result.service[1] # applied.result.service[2]
           /\ applied.result.routes[1] # applied.result.routes[2]

-----------------------------------------------------------------------------
(* Properties of the not-found marker *)

\* the unexpired row the call found under its key is a not-found marker
HeldMarker(o) == o.held # None /\ o.held[1].listing_data = None

\* C34: the cached not-found marker is honoured on read: once
\* checkListingStatus has cached a not-found marker for a key, a further
\* checkListingStatus for the same key before the marker's expiry (12 hours)
\* returns 'not listed' from the cache without an upstream call
C34_MarkerIsHonoured ==
    (IsListingCall(last) /\ hasKey /\ last.read = "ok" /\ HeldMarker(last))
        => /\ last.result = None
           /\ last.http = <<>>
           /\ last.synth = 0
           /\ last.write = None

-----------------------------------------------------------------------------
(* Properties of expiry *)

\* the row the table of the handler holds under the key of the call
RowFor(o) ==
    CASE IsMarketCall(o) -> marketCache[o.zip]
      [] IsListingCall(o) -> listingCache[listingCacheKey(o.address, o.zip)]
      [] o.op = "routes /listing-status" -> routesCache[routesListingKey(o.address, o.zip)]
      [] o.op = "routes /market-data" -> routesCache[routesMarketKey(o.zip)]

\* the table holds a row for the key of the call whose expires_at is not later
\* than the current time
ExpiredRowFor(o) == RowFor(o) # None /\ RowFor(o)[1].expires_at <= now

\* C12: a handler call made while the table (market_data_cache, listing_cache,
\* cache of routes.js) physically holds a row for its key whose expires_at is
\* not later than the current time does not get that row from the lookup: it
\* proceeds as on a miss and returns the result of a miss.
C12_ExpiredEntryIsAbsent ==
    [][(last' # last /\ ExpiredRowFor(last'))
          => /\ TookMissPath(last')
             /\ last'.held = None
             /\ last'.result = ResultOnMiss(last')]_vars

\* GET /market-data of routes.js, called at the very hour its row expires, has
\* asked both sources; the failed write has left the expired row in the table
C12_Witness ==
    /\ last.op = "routes /market-data" /\ hasPool /\ last.at = now
    /\ last.read = "ok" /\ ~last.committed /\ last.http # <<>>
    /\ ExpiredRowFor(last)
    /\ RowFor(last)[1].expires_at = now

-----------------------------------------------------------------------------
(* Properties of the upstream strategies *)

\* the i-th request of the call was rejected by axios (network error, timeout,
\* status of 500 or more)
RequestFailed(o, i) == axiosThrows(Response(o.http[i].answer, o.http[i].strategy))

\* C13: one getMarketData aggregation makes at most two upstream requests, one
\* after the other: the first is the search by postal_code, the second (search
\* by location) is made only after the first has completed in failure, and
\* never when the first has returned a response.
C13_StrategiesInSequence ==
    IsMarketCall(last)
        => /\ Len(last.http) <= 2
           /\ (Len(last.http) >= 1 => last.http[1].strategy = Strategies[1])
           /\ (Len(last.http) = 2
                  => /\ last.http[2].strategy = Strategies[2]
                     /\ last.http[1].answer # Unasked /\ last.http[2].answer # Unasked
                     /\ RequestFailed(last, 1))
           /\ ((Len(last.http) >= 1 /\ ~RequestFailed(last, 1)) => Len(last.http) = 1)

\* the search by postal_code rejected with status 500, then the search by
\* location answered with records, from which the snapshot is computed
C13_Witness ==
    /\ IsMarketCall(last) /\ Len(last.http) = 2
    /\ last.http[1] = Request("postal_code", "http500")
    /\ last.http[2] = Request("location", "records")
    /\ last.synth = 0
    /\ last.result = Some(calculateMarketMetrics(last.zip, RecordsB))

-----------------------------------------------------------------------------
(* Properties of POST /bulk-listing-check *)

IsServerBulk == endpoint = "/bulk-listing-check"

IsRoutesBulk == endpoint = "routes /bulk-listing-check"

\* the properties value is an array of at most 10 entries
AcceptableBody(properties) ==
    properties.t = "arr" /\ Len(properties.v) <= MaxBulkProperties

\* no cache lookup and no upstream call was started for the request
NothingStarted ==
    /\ IsServerBulk => bulk.calls = <<>>
    /\ IsRoutesBulk => bulk.items = <<>>

\* the k-th result is the one of the k-th entry
ResultOfEntry(k) ==
    \/ IsNullEntry(bulk.properties.v[k])
    \/ /\ IsServerBulk
       /\ bulk.results[k].address = orMissing(bulk.properties.v[k].address)
       /\ bulk.results[k].zipCode = orMissing(bulk.properties.v[k].zipCode)
    \/ /\ IsRoutesBulk
       /\ bulk.results[k].address \in
              { bulk.properties.v[k].address[1], notFoundResult(bulk.properties.v[k]).address }

\* C15: a bulk-listing-check request whose properties value is missing, not an
\* array, or longer than 10 entries is answered 400 before any cache lookup or
\* upstream call; an array of 0 to 10 entries is answered 200 with exactly one
\* result per entry, in the order of the entries (server.ts and routes.js).
C15_BulkValidation ==
    ((IsServerBulk \/ IsRoutesBulk) /\ bulk.phase = "responded")
        => IF ~AcceptableBody(bulk.properties)
           THEN bulk.code = 400 /\ NothingStarted
           ELSE /\ bulk.code = 200
                /\ Len(bulk.results) = Len(bulk.properties.v)
                /\ \A k \in DOMAIN bulk.results : ResultOfEntry(k)

====
